---- MODULE Spec2Model ----
(***************************************************************************)
(* Model of solver.py: the address-translation and page-replacement engine *)
(* of the IBM System/370 case study (24-bit virtual address, 2 KB pages,   *)
(* DAT table entries, LRU with second chance over five queues, DASD disk   *)
(* geometry).                                                              *)
(*                                                                         *)
(* Text values (hexadecimal and binary strings) are sequences of digit     *)
(* values; dictionaries are records or functions over their keys; Python   *)
(* objects that can be aliased and mutated in place (the queue mapping and *)
(* its lists) live in the object stores `dicts` and `lists` and are named  *)
(* by their index.  Optional[x] is <<>> for None and <<x>> for a value.    *)
(***************************************************************************)
EXTENDS Integers, Sequences, FiniteSets, TLC

\* ------------------------------------------------------------------------
\* Bounds of the model
\* ------------------------------------------------------------------------

\* largest total number of entries in an enumerated queue set
MaxEntries == 2

\* absolute page numbers 0..MaxPage are enumerated in direct calls
MaxPage == 40

\* cell numbers 0..MaxFrame are enumerated in direct calls
MaxFrame == 40

\* tracks and slots of a geometry range over -MaxGeometry..MaxGeometry
MaxGeometry == 3

\* largest total number of entries typed into the queues of a session
MaxEntered == 1

\* ------------------------------------------------------------------------
\* Constants of the system
\* ------------------------------------------------------------------------

PAGE_SIZE == 2048

PAGES_PER_SEGMENT == 32

max_iterations == 1000

DISK_MODELS_INIT ==
    [m \in {"3330", "3340", "3350"} |->
        CASE m = "3330" -> [tracks_per_cyl |-> 19, slots_per_track |-> 6]
          [] m = "3340" -> [tracks_per_cyl |-> 12, slots_per_track |-> 3]
          [] m = "3350" -> [tracks_per_cyl |-> 30, slots_per_track |-> 8]]

QUEUE_ORDER == <<"Q00", "Q01", "Q10", "Q11", "HQ">>

QueueNames == {QUEUE_ORDER[i] : i \in 1..Len(QUEUE_ORDER)}

None == <<>>

Some(x) == <<x>>

\* ------------------------------------------------------------------------
\* Integer and text primitives of the language
\* ------------------------------------------------------------------------

\* F applied to the value of v; v is evaluated once, before F's body
Bind(v, F(_)) == CHOOSE r \in {F(x) : x \in {v}} : TRUE

Pow(b, n) == b ^ n

\* value >> n
Shr(v, n) == v \div Pow(2, n)

\* value << n
Shl(v, n) == v * Pow(2, n)

\* bit i (from the least significant, i = 0) of a non-negative integer
Bit(v, i) == (v \div Pow(2, i)) % 2

\* a // b: the quotient rounded towards minus infinity, b /= 0
FloorDiv(a, b) == IF b > 0 THEN a \div b ELSE (0 - a) \div (0 - b)

\* a % b: the remainder with the sign of b, b /= 0
FloorMod(a, b) == a - b * FloorDiv(a, b)

\* the bits of a & b from position i upwards
RECURSIVE BitAndFrom(_, _, _)
BitAndFrom(a, b, i) ==
    IF Pow(2, i) > a \/ Pow(2, i) > b THEN 0
    ELSE Bit(a, i) * Bit(b, i) * Pow(2, i) + BitAndFrom(a, b, i + 1)

\* a & b on non-negative integers
BitAnd(a, b) ==
    Bind(a, LAMBDA x : Bind(b, LAMBDA y : BitAndFrom(x, y, 0)))

\* the bits of a | b from position i upwards
RECURSIVE BitOrFrom(_, _, _)
BitOrFrom(a, b, i) ==
    IF Pow(2, i) > a /\ Pow(2, i) > b THEN 0
    ELSE (IF Bit(a, i) = 1 \/ Bit(b, i) = 1 THEN Pow(2, i) ELSE 0)
         + BitOrFrom(a, b, i + 1)

\* a | b on non-negative integers
BitOr(a, b) ==
    Bind(a, LAMBDA x : Bind(b, LAMBDA y : BitOrFrom(x, y, 0)))

\* the value of the first n digits of a digit string (Horner's scheme)
RECURSIVE ParsePrefix(_, _, _)
ParsePrefix(s, base, n) ==
    IF n = 0 THEN 0 ELSE ParsePrefix(s, base, n - 1) * base + s[n]

\* int(text, base): the value of a digit string
ParseInt(s, base) == Bind(s, LAMBDA x : ParsePrefix(x, base, Len(x)))

\* the number of digits of v in the given base
RECURSIVE NumDigits(_, _, _)
NumDigits(v, base, n) ==
    IF v < Pow(base, n) THEN n ELSE NumDigits(v, base, n + 1)

\* the digits of v in the given base, most significant first, no padding
Digits(v, base) ==
    Bind(v, LAMBDA x :
        Bind(NumDigits(x, base, 1), LAMBDA n :
            [i \in 1..n |-> (x \div Pow(base, n - i)) % base]))

\* format(v, "0<width>b") and f"{v:0<width>X}": zero-padded to at least width
Format(v, base, width) ==
    Bind(Digits(v, base), LAMBDA ds :
        IF Len(ds) >= width THEN ds
        ELSE [i \in 1..(width - Len(ds)) |-> 0] \o ds)

\* ------------------------------------------------------------------------
\* 1. decompose_virtual_address
\* ------------------------------------------------------------------------

\* variant of decompose_virtual_address: the page mask is 6 bits wide
decompose_virtual_address_wide_page(dv) ==
    LET value == ParseInt(dv, 16)
        s == BitAnd(Shr(value, 16), 255)
        p == BitAnd(Shr(value, 11), 63)
        d == BitAnd(value, 2047)
        num_abs_page == s * PAGES_PER_SEGMENT + p
    IN  [dv_hex |-> Format(value, 16, 6),
         dv_bin |-> Format(value, 2, 24),
         S_dec |-> s,
         S_hex |-> Format(s, 16, 2),
         P_dec |-> p,
         P_hex |-> Format(p, 16, 2),
         d_dec |-> d,
         d_hex |-> Format(d, 16, 3),
         d_bin |-> Format(d, 2, 11),
         num_abs_page |-> num_abs_page,
         num_abs_page_hex |-> Format(num_abs_page, 16, 4)]

decompose_virtual_address(dv) ==
    LET value == ParseInt(dv, 16)
        s == BitAnd(Shr(value, 16), 255)
        p == BitAnd(Shr(value, 11), 31)
        d == BitAnd(value, 2047)
        num_abs_page == s * PAGES_PER_SEGMENT + p
    IN  [dv_hex |-> Format(value, 16, 6),
         dv_bin |-> Format(value, 2, 24),
         S_dec |-> s,
         S_hex |-> Format(s, 16, 2),
         P_dec |-> p,
         P_hex |-> Format(p, 16, 2),
         d_dec |-> d,
         d_hex |-> Format(d, 16, 3),
         d_bin |-> Format(d, 2, 11),
         num_abs_page |-> num_abs_page,
         num_abs_page_hex |-> Format(num_abs_page, 16, 4)]

\* ------------------------------------------------------------------------
\* 2. calculate_num_cells
\* ------------------------------------------------------------------------

calculate_num_cells(rsize) == rsize \div 2

\* ------------------------------------------------------------------------
\* 3. analyze_pte
\* ------------------------------------------------------------------------

\* variant of analyze_pte: the validity bit is read at position 3
analyze_pte_wrong_bit(ph) ==
    LET value == ParseInt(ph, 16)
        bit_i == BitAnd(Shr(value, 3), 1)
        is_page_fault == (bit_i = 1)
        base == [pte_hex |-> Format(value, 16, 4),
                 pte_bin |-> Format(value, 2, 16),
                 bit_I |-> bit_i,
                 is_page_fault |-> is_page_fault]
        cell_number == Shr(value, 3)
        dc == cell_number * PAGE_SIZE
    IN  IF ~is_page_fault
        THEN ("cell_number" :> cell_number) @@ ("dc_hex" :> Format(dc, 16, 6)) @@ base
        ELSE base

analyze_pte(ph) ==
    LET value == ParseInt(ph, 16)
        bit_i == BitAnd(Shr(value, 2), 1)
        is_page_fault == (bit_i = 1)
        base == [pte_hex |-> Format(value, 16, 4),
                 pte_bin |-> Format(value, 2, 16),
                 bit_I |-> bit_i,
                 is_page_fault |-> is_page_fault]
        cell_number == Shr(value, 3)
        dc == cell_number * PAGE_SIZE
    IN  IF ~is_page_fault
        THEN ("cell_number" :> cell_number) @@ ("dc_hex" :> Format(dc, 16, 6)) @@ base
        ELSE base

\* ------------------------------------------------------------------------
\* 4. calculate_real_address
\* ------------------------------------------------------------------------

\* variant of calculate_real_address: DC scaled by the pages per segment
calculate_real_address_wrong_scale(cell_number, d_bin) ==
    LET dc == cell_number * PAGES_PER_SEGMENT
        d == ParseInt(d_bin, 2)
        dr == dc + d
    IN  [dc_dec |-> dc,
         dc_hex |-> Format(dc, 16, 6),
         dr_dec |-> dr,
         dr_hex |-> Format(dr, 16, 6),
         dr_bin |-> Format(dr, 2, 24)]

calculate_real_address(cell_number, d_bin) ==
    LET dc == cell_number * PAGE_SIZE
        d == ParseInt(d_bin, 2)
        dr == dc + d
    IN  [dc_dec |-> dc,
         dc_hex |-> Format(dc, 16, 6),
         dr_dec |-> dr,
         dr_hex |-> Format(dr, 16, 6),
         dr_bin |-> Format(dr, 2, 24)]

\* ------------------------------------------------------------------------
\* 6. identify_evicted_page
\* ------------------------------------------------------------------------

\* variant of identify_evicted_page: the segment is cut to 8 bits
identify_evicted_page_byte_segment(pfte) ==
    LET num_abs == ParseInt(pfte, 16)
    IN  [pfte_hex |-> pfte,
         num_abs_page |-> num_abs,
         segment |-> (num_abs \div PAGES_PER_SEGMENT) % 256,
         page |-> num_abs % PAGES_PER_SEGMENT]

identify_evicted_page(pfte) ==
    LET num_abs == ParseInt(pfte, 16)
    IN  [pfte_hex |-> pfte,
         num_abs_page |-> num_abs,
         segment |-> num_abs \div PAGES_PER_SEGMENT,
         page |-> num_abs % PAGES_PER_SEGMENT]

\* ------------------------------------------------------------------------
\* 7. calculate_epa
\* ------------------------------------------------------------------------

\* num_abs_page // slots_per_cyl raises ZeroDivisionError
calculate_epa_divides_by_zero(tracks_per_cyl, slots_per_track) ==
    tracks_per_cyl * slots_per_track = 0

\* variant of calculate_epa: track and slot are taken the other way round
calculate_epa_slot_first(num_abs_page, tracks_per_cyl, slots_per_track) ==
    LET slots_per_cyl == tracks_per_cyl * slots_per_track
        cylinder == FloorDiv(num_abs_page, slots_per_cyl)
        remainder == FloorMod(num_abs_page, slots_per_cyl)
    IN  [cylinder |-> cylinder,
         track |-> FloorMod(remainder, slots_per_track),
         slot |-> FloorDiv(remainder, slots_per_track),
         slots_per_cyl |-> slots_per_cyl,
         slots_per_track |-> slots_per_track]

\* the value returned when no division is by zero
calculate_epa(num_abs_page, tracks_per_cyl, slots_per_track) ==
    LET slots_per_cyl == tracks_per_cyl * slots_per_track
        cylinder == FloorDiv(num_abs_page, slots_per_cyl)
        remainder == FloorMod(num_abs_page, slots_per_cyl)
    IN  [cylinder |-> cylinder,
         track |-> FloorDiv(remainder, slots_per_track),
         slot |-> FloorMod(remainder, slots_per_track),
         slots_per_cyl |-> slots_per_cyl,
         slots_per_track |-> slots_per_track]

\* ------------------------------------------------------------------------
\* 8. calculate_dc
\* ------------------------------------------------------------------------

calculate_dc(cell_number) ==
    LET dc == cell_number * PAGE_SIZE
    IN  [dc_dec |-> dc,
         dc_hex |-> Format(dc, 16, 6),
         dc_bin |-> Format(dc, 2, 24)]

\* ------------------------------------------------------------------------
\* 9. build_new_pte
\* ------------------------------------------------------------------------

\* variant of build_new_pte: the cell number is shifted by 2, onto bit I
build_new_pte_short_shift(cell_number) ==
    LET upper_13 == BitAnd(cell_number, 8191)
        bi_0 == BitOr(Shl(upper_13, 2), 0)
        bi_1 == BitOr(Shl(upper_13, 2), 4)
    IN  [cell_number |-> cell_number,
         bi_0_hex |-> Format(bi_0, 16, 4),
         bi_0_bin |-> Format(bi_0, 2, 16),
         bi_1_hex |-> Format(bi_1, 16, 4),
         bi_1_bin |-> Format(bi_1, 2, 16)]

build_new_pte(cell_number) ==
    LET upper_13 == BitAnd(cell_number, 8191)
        bi_0 == BitOr(Shl(upper_13, 3), 0)
        bi_1 == BitOr(Shl(upper_13, 3), 4)
    IN  [cell_number |-> cell_number,
         bi_0_hex |-> Format(bi_0, 16, 4),
         bi_0_bin |-> Format(bi_0, 2, 16),
         bi_1_hex |-> Format(bi_1, 16, 4),
         bi_1_bin |-> Format(bi_1, 2, 16)]

\* ------------------------------------------------------------------------
\* State
\* ------------------------------------------------------------------------

VARIABLES
    dv_hex,             \* argument: virtual address, hexadecimal text
    pte_hex,            \* argument: page-table entry, hexadecimal text
    rsize_kb,           \* argument: installed real memory in KB
    disk_model,         \* argument: key of DISK_MODELS
    queues,             \* argument: Optional reference to the caller's mapping
    pfte_bytes_45_hex,  \* argument: Optional hexadecimal text
    DISK_MODELS,        \* the module-level catalog of disk geometries
    dicts,              \* object store: mappings queue name -> list reference
    lists,              \* object store: lists of (cell, R, C) tuples
    pc,                 \* position in solve_full_exercise / run_lru_second_chance
    result,             \* local of solve_full_exercise, returned at the end
    queues_before,      \* local of run_lru_second_chance (reference)
    q,                  \* local of run_lru_second_chance (reference)
    steps,              \* local of run_lru_second_chance
    iter,               \* number of loop iterations started so far
    lru,                \* Optional value returned by run_lru_second_chance
    exc,                \* Optional exception that left solve_full_exercise
    call,               \* Optional direct call of one function of solver.py
    ret,                \* Optional outcome of the direct call
    menu                \* position of main.py's session, "none" without one

args == <<dv_hex, pte_hex, rsize_kb, disk_model, queues, pfte_bytes_45_hex>>

\* what surrounds a call of solve_full_exercise
caller == <<call, ret, menu>>

vars == <<dv_hex, pte_hex, rsize_kb, disk_model, queues, pfte_bytes_45_hex,
          DISK_MODELS, dicts, lists, pc, result, queues_before, q, steps,
          iter, lru, exc, call, ret, menu>>

\* ------------------------------------------------------------------------
\* Objects: copy.deepcopy and dict.setdefault on the queue mapping
\* ------------------------------------------------------------------------

\* keys of a queue mapping in insertion order
KeysInOrder(d) == SelectSeq(QUEUE_ORDER, LAMBDA n : n \in DOMAIN d)

IndexIn(seq, x) == CHOOSE i \in 1..Len(seq) : seq[i] = x

\* variant of DeepCopy: dict(mapping), a new mapping sharing the lists
ShallowCopy(ds, ls, id) ==
    [dicts |-> Append(ds, ds[id]), lists |-> ls, id |-> Len(ds) + 1]

\* copy.deepcopy(mapping): a new mapping whose lists are new objects
DeepCopy(ds, ls, id) ==
    LET d == ds[id]
        ks == KeysInOrder(d)
        copied == [i \in 1..Len(ks) |-> ls[d[ks[i]]]]
        nd == [n \in DOMAIN d |-> Len(ls) + IndexIn(ks, n)]
    IN  [dicts |-> Append(ds, nd), lists |-> ls \o copied, id |-> Len(ds) + 1]

\* for name in QUEUE_ORDER: q.setdefault(name, [])
SetDefaults(ds, ls, id) ==
    LET d == ds[id]
        missing == SelectSeq(QUEUE_ORDER, LAMBDA n : n \notin DOMAIN d)
        nd == [n \in QueueNames |->
                 IF n \in DOMAIN d THEN d[n] ELSE Len(ls) + IndexIn(missing, n)]
    IN  [dicts |-> [ds EXCEPT ![id] = nd],
         lists |-> ls \o [i \in 1..Len(missing) |-> <<>>]]

\* the contents of a queue mapping: queue name -> sequence of entries
Contents(ds, ls, id) == [n \in DOMAIN ds[id] |-> ls[ds[id][n]]]

\* ------------------------------------------------------------------------
\* Inputs of a translation request
\* ------------------------------------------------------------------------

\* virtual addresses of the exercise catalog plus the extremes of 24 bits
DVInputs ==
    { <<0,3,15,15,10,3>>,      \* 03FFA3
      <<0,3,15,7,10,3>>,       \* 03F7A3
      <<0,5,15,7,15,15>>,      \* 05F7FF
      <<0,4,5,6,0,10>>,        \* 04560A
      <<0,0,10,8,4,5>>,        \* 00A845
      <<0,0,0,0,0,0>>,         \* 000000
      <<15,15,15,15,15,15>>,   \* FFFFFF
      <<8,0,0,8,0,0>> }        \* 800800

\* page-table entries of the exercise catalog plus extremes
PTEInputs ==
    { <<0,5,14,8>>,            \* 05E8  I=0
      <<1,0,3,3>>,             \* 1033  I=0
      <<0,1,3,3>>,             \* 0133  I=0
      <<15,15,15,11>>,         \* FFFB  I=0
      <<1,0,3,12>>,            \* 103C  I=1
      <<0,0,0,4>>,             \* 0004  I=1
      <<5,4,8,4>>,             \* 5484  I=1
      <<2,5,6,5>> }            \* 2565  I=1

PFTEInputs ==
    { None,
      Some(<<0,5,10,2>>),      \* 05A2
      Some(<<1,5,4,2>>),       \* 1542
      Some(<<15,15,15,15>>) }  \* FFFF

\* queue entries (cell, R, C) used to enumerate small queue sets: two cells,
\* each with both values of R, and every combination of R and C
Entries == {<<17, 0, 0>>, <<17, 1, 1>>, <<25, 0, 1>>, <<25, 1, 0>>}

\* the queue set whose five queues are the consecutive pieces of s cut at c
MkQueues(s, c) ==
    [n \in QueueNames |->
        LET i == IndexIn(QUEUE_ORDER, n)
            lo == IF i = 1 THEN 0 ELSE c[i - 1]
            hi == IF i = 5 THEN Len(s) ELSE c[i]
        IN  SubSeq(s, lo + 1, hi)]

Cuts(n) == {c \in [1..4 -> 0..n] : \A i \in 1..3 : c[i] <= c[i + 1]}

\* every queue set over Entries holding at most MaxEntries entries in total
BoundedQueueSets ==
    UNION { { MkQueues(s, c) : s \in [1..n -> Entries], c \in Cuts(n) }
            : n \in 0..MaxEntries }

Restrict(f, S) == [x \in S |-> f[x]]

\* "queues" of exercise 3b
Queues3b ==
    [Q00 |-> <<<<17,1,0>>, <<25,1,1>>, <<14,1,0>>>>,
     Q01 |-> <<<<31,1,1>>, <<48,1,1>>, <<33,1,1>>, <<29,1,1>>>>,
     Q10 |-> <<<<35,1,0>>, <<22,1,1>>>>,
     Q11 |-> <<<<20,0,1>>, <<37,1,1>>, <<34,1,1>>>>,
     HQ  |-> <<<<32,1,0>>, <<36,1,1>>, <<28,1,0>>>>]

\* "queues" of exercises 4a and 4b
Queues4 ==
    [Q00 |-> <<<<17,1,0>>, <<25,1,1>>, <<14,1,0>>>>,
     Q01 |-> <<<<31,1,1>>, <<48,1,1>>, <<23,0,1>>, <<29,1,1>>>>,
     Q10 |-> <<<<35,1,0>>, <<22,1,1>>>>,
     Q11 |-> <<<<20,0,1>>, <<37,1,1>>, <<34,1,1>>>>,
     HQ  |-> <<<<32,1,0>>, <<36,1,1>>, <<28,1,0>>>>]

\* "queues" of exercise 5b
Queues5b ==
    [Q00 |-> <<<<13,1,0>>, <<24,1,1>>, <<17,1,0>>>>,
     Q01 |-> <<<<29,1,1>>, <<22,1,1>>, <<23,0,1>>, <<21,1,1>>>>,
     Q10 |-> <<<<35,1,0>>, <<22,1,1>>>>,
     Q11 |-> <<<<20,0,1>>, <<37,1,1>>, <<34,1,1>>>>,
     HQ  |-> <<<<32,1,0>>, <<36,1,1>>, <<28,1,0>>>>]

\* "queues" of exercise exam2324 (cell 25 twice)
QueuesExam2324 ==
    [Q00 |-> <<<<16,1,1>>, <<24,1,1>>, <<15,1,1>>>>,
     Q01 |-> <<<<29,1,1>>, <<30,1,1>>>>,
     Q10 |-> <<<<22,1,1>>>>,
     Q11 |-> <<<<25,1,1>>>>,
     HQ  |-> <<<<32,1,0>>, <<36,1,1>>, <<28,1,0>>, <<25,1,0>>>>]

\* "queues" of exercise extra1 (cell 32 twice)
QueuesExtra1 ==
    [Q00 |-> <<<<13,1,1>>, <<24,1,1>>, <<15,1,1>>>>,
     Q01 |-> <<<<29,1,1>>, <<30,1,1>>>>,
     Q10 |-> <<<<32,1,1>>>>,
     Q11 |-> <<<<25,0,1>>>>,
     HQ  |-> <<<<32,1,0>>, <<36,1,1>>, <<28,1,0>>>>]

\* the queue sets of the exercise catalog and some with missing queue names
CatalogQueueSets ==
    { Queues3b,
      QueuesExam2324,
      QueuesExtra1,
      \* a victim behind a referenced head, followed by more entries
      [Q00 |-> <<<<17,1,1>>, <<8195,0,0>>, <<14,1,0>>>>,
       Q01 |-> <<<<31,0,1>>>>,
       Q10 |-> <<>>, Q11 |-> <<>>, HQ |-> <<>>],
      \* only Q01 present in the mapping
      Restrict([Q01 |-> <<<<5,0,0>>>>], {"Q01"}),
      \* only HQ present in the mapping
      Restrict([HQ |-> <<<<9,1,1>>, <<5,0,0>>>>], {"HQ"}),
      \* an empty mapping
      Restrict([Q00 |-> <<>>], {}) }

\* a queue set whose Q00 holds max_iterations referenced entries
LongQueueSet ==
    [n \in QueueNames |->
        IF n = "Q00" THEN [i \in 1..max_iterations |-> <<17, 1, i % 2>>]
        ELSE <<>>]

\* a queue set whose last queue holds as many referenced entries as a run
\* can go through: 4 rotations, 995 second chances and the victim
NearLimitQueueSet ==
    [n \in QueueNames |->
        IF n = "HQ" THEN [i \in 1..(max_iterations - 5) |-> <<17, 1, i % 2>>]
        ELSE <<>>]

FaultPTE == <<1,0,3,12>>

\* requests that vary the queue set
EvictorInputs ==
    [dv : {<<0,3,15,15,10,3>>}, pte : {FaultPTE}, rsize : {100},
     disk : {"3330"}, pfte : {Some(<<0,5,10,2>>)},
     qs : {Some(qs) : qs \in BoundedQueueSets
                            \cup {LongQueueSet, NearLimitQueueSet}}]

\* requests that vary the address, the entry, the disk and the locator
TranslationInputs ==
    [dv : DVInputs, pte : PTEInputs, rsize : {100},
     disk : DOMAIN DISK_MODELS_INIT, pfte : PFTEInputs,
     qs : {None} \cup {Some(qs) : qs \in CatalogQueueSets}]

Inputs == EvictorInputs \cup TranslationInputs

\* ------------------------------------------------------------------------
\* Initial state: a call of solve_full_exercise is about to run
\* ------------------------------------------------------------------------

InitFor(inp) ==
    /\ dv_hex = inp.dv
    /\ pte_hex = inp.pte
    /\ rsize_kb = inp.rsize
    /\ disk_model = inp.disk
    /\ pfte_bytes_45_hex = inp.pfte
    /\ DISK_MODELS = DISK_MODELS_INIT
    /\ IF inp.qs = None
       THEN /\ queues = None
            /\ dicts = <<>>
            /\ lists = <<>>
       ELSE LET qs == inp.qs[1]
                ks == KeysInOrder(qs)
            IN  /\ queues = Some(1)
                /\ dicts = <<[n \in DOMAIN qs |-> IndexIn(ks, n)]>>
                /\ lists = [i \in 1..Len(ks) |-> qs[ks[i]]]
    /\ pc = "start"
    /\ result = <<>>
    /\ queues_before = 0
    /\ q = 0
    /\ steps = <<>>
    /\ iter = 0
    /\ lru = None
    /\ exc = None
    /\ call = None
    /\ ret = None
    /\ menu = "none"

Init == \E inp \in Inputs : InitFor(inp)

\* ------------------------------------------------------------------------
\* 5. run_lru_second_chance, one loop iteration per step
\* ------------------------------------------------------------------------

\* result[key] = value
Assign(d, key, value) == (key :> value) @@ d

\* raise: the exception leaves solve_full_exercise, which has no handler
Raise(type, msg) ==
    /\ exc' = Some([type |-> type, msg |-> msg])
    /\ pc' = "Failed"

\* variant of LoopContinues: range(max_iterations - 1)
LoopContinuesOneLess(i) == i < max_iterations - 1

\* variant of LoopContinues: while True, no iteration cap
LoopContinuesUncapped(i) == TRUE

\* for _ in range(max_iterations): another iteration starts
LoopContinues(i) == i < max_iterations

\* variant of OthersEmpty: only Q01 is looked at
OthersEmptyNextOnly(ds, ls, id) == ls[ds[id]["Q01"]] = <<>>

\* variant of OthersEmpty: the other queues are never found empty
OthersEmptyNever(ds, ls, id) == FALSE

\* not any(q[k] for k in QUEUE_ORDER[1:])
OthersEmpty(ds, ls, id) ==
    \A k \in 2..Len(QUEUE_ORDER) : ls[ds[id][QUEUE_ORDER[k]]] = <<>>

\* variant of Head00: the entry of Q00 with the lowest cell number
Head00LowestCell ==
    LET s == lists[dicts[q]["Q00"]]
    IN  s[CHOOSE i \in 1..Len(s) : \A j \in 1..Len(s) : s[i][1] <= s[j][1]]

\* the head of Q00 of the working copy
Head00 == lists[dicts[q]["Q00"]][1]

\* variant of IsVictim: the head is taken whatever its R bit
IsVictimAnyHead(r) == TRUE

\* if r == 0: the head is the victim
IsVictim(r) == r = 0

\* variant of NeedsPageout: the test of the C bit is inverted
NeedsPageoutInverted(c) == c = 0

\* "needs_pageout": c == 1
NeedsPageout(c) == c = 1

\* variant of Rotate: q["HQ"] = [] is left out, HQ keeps its list
RotateKeepingHQ(d, fresh) ==
    [n \in QueueNames |->
        CASE n = "Q00" -> d["Q01"]
          [] n = "Q01" -> d["Q10"]
          [] n = "Q10" -> d["Q11"]
          [] n = "Q11" -> d["HQ"]
          [] n = "HQ"  -> d["HQ"]]

\* variant of Rotate: the queues move down two tiers at once
RotateTwoTiers(d, fresh) ==
    [n \in QueueNames |->
        CASE n = "Q00" -> d["Q10"]
          [] n = "Q01" -> d["Q11"]
          [] n = "Q10" -> d["HQ"]
          [] n = "Q11" -> fresh
          [] n = "HQ"  -> fresh]

\* variant of Rotate: q["Q11"] = q["HQ"] = [], the lists of HQ are dropped
RotateDiscardingHQ(d, fresh) ==
    [n \in QueueNames |->
        CASE n = "Q00" -> d["Q01"]
          [] n = "Q01" -> d["Q10"]
          [] n = "Q10" -> d["Q11"]
          [] n = "Q11" -> fresh
          [] n = "HQ"  -> fresh]

\* the five assignments of the rotation; fresh is the new empty list
Rotate(d, fresh) ==
    [n \in QueueNames |->
        CASE n = "Q00" -> d["Q01"]
          [] n = "Q01" -> d["Q10"]
          [] n = "Q10" -> d["Q11"]
          [] n = "Q11" -> d["HQ"]
          [] n = "HQ"  -> fresh]

\* entry of run_lru_second_chance: the two copies and the default queues
LruEnter ==
    /\ pc = "FaultDetected"
    /\ IF queues = None
       THEN \* deepcopy(None) is None, and None has no setdefault
            /\ Raise("AttributeError", "setdefault")
            /\ UNCHANGED <<dicts, lists, queues_before, q, steps, iter>>
       ELSE \E c1 \in {DeepCopy(dicts, lists, queues[1])} :
            \E c2 \in {DeepCopy(c1.dicts, c1.lists, queues[1])} :
            \E c3 \in {SetDefaults(c2.dicts, c2.lists, c2.id)} :
                /\ queues_before' = c1.id
                /\ q' = c2.id
                /\ dicts' = c3.dicts
                /\ lists' = c3.lists
                /\ steps' = <<>>
                /\ iter' = 0
                /\ pc' = "lru_loop"
                /\ UNCHANGED exc
    /\ UNCHANGED <<args, caller, DISK_MODELS, result, lru>>

\* Q00 and all the other queues are empty
LruRaiseEmpty ==
    /\ pc = "lru_loop"
    /\ LoopContinues(iter)
    /\ lists[dicts[q]["Q00"]] = <<>>
    /\ OthersEmpty(dicts, lists, q)
    /\ Raise("RuntimeError", "LRU: todas las colas estan vacias, no hay victima posible")
    /\ iter' = iter + 1
    /\ UNCHANGED <<args, caller, DISK_MODELS, dicts, lists, result, queues_before, q,
                   steps, lru>>

\* Q00 is empty and some other queue is not: the queues move down one level
LruRotate ==
    /\ pc = "lru_loop"
    /\ LoopContinues(iter)
    /\ lists[dicts[q]["Q00"]] = <<>>
    /\ ~OthersEmpty(dicts, lists, q)
    /\ steps' = Append(steps,
                  [action |-> "rotate_queues",
                   detail |-> "Q00 vacia -> Q01->Q00, Q10->Q01, Q11->Q10, HQ->Q11"])
    /\ lists' = Append(lists, <<>>)
    /\ dicts' = [dicts EXCEPT ![q] = Rotate(@, Len(lists) + 1)]
    /\ iter' = iter + 1
    /\ UNCHANGED <<args, caller, DISK_MODELS, pc, result, queues_before, q, lru, exc>>

\* the head of Q00 has R = 0: it is removed and returned as the victim
LruVictim ==
    /\ pc = "lru_loop"
    /\ LoopContinues(iter)
    /\ lists[dicts[q]["Q00"]] /= <<>>
    /\ IsVictim(Head00[2])
    /\ LET cell == Head00[1]
           r == Head00[2]
           c == Head00[3]
           st == Append(steps,
                   [action |-> "victim_found", cell |-> cell, R |-> r, C |-> c,
                    detail |-> <<"Celda", cell, "con R=0 -> VICTIMA">>])
       IN  /\ lists' = [lists EXCEPT ![dicts[q]["Q00"]] = Tail(@)]
           /\ steps' = st
           /\ lru' = Some([victim_cell |-> cell,
                           victim_R |-> r,
                           victim_C |-> c,
                           needs_pageout |-> NeedsPageout(c),
                           steps |-> st,
                           queues_before |-> queues_before,
                           queues_after |-> q])
    /\ iter' = iter + 1
    /\ pc' = "lru_return"
    /\ UNCHANGED <<args, caller, DISK_MODELS, dicts, result, queues_before, q, exc>>

\* variant of Reprieved: the entry goes to the tail with its R still set
ReprievedStillReferenced(cell, c) == <<cell, 1, c>>

\* variant of Reprieved: the entry goes to the tail with R and C cleared
ReprievedClean(cell, c) == <<cell, 0, 0>>

\* (cell, 0, c): the entry that goes to the tail of Q00 after its second chance
Reprieved(cell, c) == <<cell, 0, c>>

\* the head of Q00 has R = 1: R is cleared and the entry moves to the tail
LruSecondChance ==
    /\ pc = "lru_loop"
    /\ LoopContinues(iter)
    /\ lists[dicts[q]["Q00"]] /= <<>>
    /\ ~IsVictim(Head00[2])
    /\ LET cell == Head00[1]
           c == Head00[3]
       IN  /\ lists' = [lists EXCEPT ![dicts[q]["Q00"]] =
                          Append(Tail(@), Reprieved(cell, c))]
           /\ steps' = Append(steps,
                         [action |-> "second_chance", cell |-> cell,
                          R_before |-> 1, R_after |-> 0,
                          detail |-> <<"Celda", cell, "con R=1 -> R=0, mover al final de Q00">>])
    /\ iter' = iter + 1
    /\ UNCHANGED <<args, caller, DISK_MODELS, dicts, pc, result, queues_before, q, lru, exc>>

\* the loop ran out of iterations without a victim
LruLimit ==
    /\ pc = "lru_loop"
    /\ ~LoopContinues(iter)
    /\ Raise("RuntimeError", "LRU: limite de iteraciones alcanzado sin encontrar victima")
    /\ UNCHANGED <<args, caller, DISK_MODELS, dicts, lists, result, queues_before, q,
                   steps, iter, lru>>

\* ------------------------------------------------------------------------
\* 10. solve_full_exercise, one stage per step
\* ------------------------------------------------------------------------

\* variant of QueuesMissing: the check for missing queues is left out
QueuesMissingUnchecked(qs) == FALSE

\* if queues is None
QueuesMissing(qs) == qs = None

\* variant of LocatorSupplied: the locator is used without the None check
LocatorSuppliedUnchecked(p) == TRUE

\* if pfte_bytes_45_hex is not None
LocatorSupplied(p) == p /= None

\* the locals disk, addr, pte and lru of solve_full_exercise
disk == DISK_MODELS[disk_model]

\* variant of page_in_block: the EPA is computed from the victim cell number
page_in_block_of_cell(res, dsk) ==
    [epa |-> calculate_epa(res["lru"].victim_cell,
                           dsk.tracks_per_cyl, dsk.slots_per_track),
     dc |-> calculate_dc(res["lru"].victim_cell)]

\* "page_in": EPA of the requested page, DC of the victim cell
page_in_block(res, dsk) ==
    [epa |-> calculate_epa(res["address"].num_abs_page,
                           dsk.tracks_per_cyl, dsk.slots_per_track),
     dc |-> calculate_dc(res["lru"].victim_cell)]

\* "page_out": EPA of the evicted page, DC of the victim cell
page_out_block(res, dsk) ==
    [epa |-> calculate_epa(res["evicted_page"].num_abs_page,
                           dsk.tracks_per_cyl, dsk.slots_per_track),
     dc |-> calculate_dc(res["lru"].victim_cell)]

lruFrame == <<queues_before, q, steps, iter, lru>>

\* step 1: the virtual address is decomposed
Decompose ==
    /\ pc = "start"
    /\ result' = Assign(<<>>, "address", decompose_virtual_address(dv_hex))
    /\ pc' = "Decomposed"
    /\ UNCHANGED <<args, caller, DISK_MODELS, dicts, lists, lruFrame, exc>>

\* steps 2 and 3: number of cells and analysis of the entry
Analyze ==
    /\ pc = "Decomposed"
    /\ result' = Assign(Assign(Assign(result,
                     "num_cells", calculate_num_cells(rsize_kb)),
                     "pte", analyze_pte(pte_hex)),
                     "disk_model", disk_model)
    /\ pc' = "Analyzed"
    /\ UNCHANGED <<args, caller, DISK_MODELS, dicts, lists, lruFrame, exc>>

\* the entry is valid: direct translation, and the result is returned
NoFault ==
    /\ pc = "Analyzed"
    /\ ~result["pte"].is_page_fault
    /\ result' = Assign(Assign(result,
                     "page_fault", FALSE),
                     "real_address",
                         calculate_real_address(result["pte"]["cell_number"],
                                                result["address"].d_bin))
    /\ pc' = "Resolved"
    /\ UNCHANGED <<args, caller, DISK_MODELS, dicts, lists, lruFrame, exc>>

\* page fault without queues: ValueError
FaultNoQueues ==
    /\ pc = "Analyzed"
    /\ result["pte"].is_page_fault
    /\ QueuesMissing(queues)
    /\ result' = Assign(result, "page_fault", TRUE)
    /\ Raise("ValueError", "Page fault detectado pero no se proporcionaron colas LRU")
    /\ UNCHANGED <<args, caller, DISK_MODELS, dicts, lists, lruFrame>>

\* page fault with queues: the evictor is about to be called
FaultDetected ==
    /\ pc = "Analyzed"
    /\ result["pte"].is_page_fault
    /\ ~QueuesMissing(queues)
    /\ result' = Assign(result, "page_fault", TRUE)
    /\ pc' = "FaultDetected"
    /\ UNCHANGED <<args, caller, DISK_MODELS, dicts, lists, lruFrame, exc>>

\* step 4: the evictor returned its victim
VictimChosen ==
    /\ pc = "lru_return"
    /\ result' = Assign(result, "lru", lru[1])
    /\ pc' = "VictimChosen"
    /\ UNCHANGED <<args, caller, DISK_MODELS, dicts, lists, lruFrame, exc>>

\* step 5: the page that occupies the victim cell, when the locator is given
IdentifyEvicted ==
    /\ pc = "VictimChosen"
    /\ LocatorSupplied(pfte_bytes_45_hex)
    /\ IF pfte_bytes_45_hex = None
       THEN \* int(None, 16)
            /\ Raise("TypeError", "int")
            /\ UNCHANGED result
       ELSE /\ result' = Assign(result, "evicted_page",
                                identify_evicted_page(pfte_bytes_45_hex[1]))
            /\ pc' = "EvictedPageIdentified"
            /\ UNCHANGED exc
    /\ UNCHANGED <<args, caller, DISK_MODELS, dicts, lists, lruFrame>>

\* step 6a: page-out when the victim was modified
PageOut ==
    /\ pc = "EvictedPageIdentified"
    /\ result["lru"].needs_pageout
    /\ result' = Assign(result, "page_out", page_out_block(result, disk))
    /\ pc' = "PageOutComputed"
    /\ UNCHANGED <<args, caller, DISK_MODELS, dicts, lists, lruFrame, exc>>

\* variant of ReadyForPageIn: step 5 may be skipped with a locator supplied
ReadyForPageInSkippingStep5 ==
    \/ pc = "VictimChosen"
    \/ pc = "EvictedPageIdentified" /\ ~result["lru"].needs_pageout
    \/ pc = "PageOutComputed"

\* the statements before step 6b are done
ReadyForPageIn ==
    \/ pc = "VictimChosen" /\ ~LocatorSupplied(pfte_bytes_45_hex)
    \/ pc = "EvictedPageIdentified" /\ ~result["lru"].needs_pageout
    \/ pc = "PageOutComputed"

\* step 6b: page-in of the requested page into the victim cell
PageIn ==
    /\ ReadyForPageIn
    /\ result' = Assign(result, "page_in", page_in_block(result, disk))
    /\ pc' = "PageInComputed"
    /\ UNCHANGED <<args, caller, DISK_MODELS, dicts, lists, lruFrame, exc>>

\* step 7: the new entries for the incoming and the evicted page
BuildPTE ==
    /\ pc = "PageInComputed"
    /\ result' = Assign(result, "new_pte", build_new_pte(result["lru"].victim_cell))
    /\ pc' = "EntriesRebuilt"
    /\ UNCHANGED <<args, caller, DISK_MODELS, dicts, lists, lruFrame, exc>>

\* step 8: the final real address, and the result is returned
FinalAddress ==
    /\ pc = "EntriesRebuilt"
    /\ result' = Assign(result, "real_address",
                        calculate_real_address(result["lru"].victim_cell,
                                               result["address"].d_bin))
    /\ pc' = "Resolved"
    /\ UNCHANGED <<args, caller, DISK_MODELS, dicts, lists, lruFrame, exc>>

Next ==
    \/ Decompose
    \/ Analyze
    \/ NoFault
    \/ FaultNoQueues
    \/ FaultDetected
    \/ LruEnter
    \/ LruRaiseEmpty
    \/ LruRotate
    \/ LruVictim
    \/ LruSecondChance
    \/ LruLimit
    \/ VictimChosen
    \/ IdentifyEvicted
    \/ PageOut
    \/ PageIn
    \/ BuildPTE
    \/ FinalAddress

Spec == Init /\ [][Next]_vars

\* the call runs to its end: no step of the engine waits for anything
FairSpec == Init /\ [][Next]_vars /\ WF_vars(Next)

\* ------------------------------------------------------------------------
\* The functions of solver.py called on their own
\* ------------------------------------------------------------------------

\* page numbers of the calls: the small ones, the last pages of the 24-bit
\* space and pages beyond it
PageSamples == (0..MaxPage) \cup {8190, 8191, 8192, 8193, 16383, 16417}

OffsetSamples == {0, 1, 1955, 2047}

\* dv_hex: str
DecomposeCalls ==
    [fn : {"decompose_virtual_address"},
     dv_hex : DVInputs \cup {<<10, 3>>}
              \cup {Format(p * PAGE_SIZE + d, 16, 6) :
                       p \in PageSamples, d \in OffsetSamples}]

\* pte_hex: str
AnalyzeCalls == [fn : {"analyze_pte"}, pte_hex : PTEInputs]

\* cell numbers: the small ones, every power of two up to 2^13 and its
\* predecessor, and numbers wider than 13 bits
FrameSamples ==
    (0..MaxFrame) \cup {Pow(2, k) : k \in 0..13}
                  \cup {Pow(2, k) - 1 : k \in 1..14} \cup {8195}

\* cell_number: int
BuildCalls == [fn : {"build_new_pte"}, cell_number : FrameSamples]

GeometrySamples == (0 - MaxGeometry)..MaxGeometry

\* num_abs_page: int, tracks_per_cyl: int, slots_per_track: int
EpaCalls ==
    [fn : {"calculate_epa"},
     num_abs_page : (0..MaxPage) \cup {1442, 8191},
     tracks_per_cyl : GeometrySamples \cup {12, 19, 30},
     slots_per_track : GeometrySamples \cup {6, 8}]

\* cell_number: int, d_bin: str
RealAddressCalls ==
    [fn : {"calculate_real_address"},
     cell_number : {0, 1, 23, 189, 8191},
     d_bin : {Format(d, 2, 11) : d \in OffsetSamples \cup {2048, 2049, 4095, 4096}}]

\* cell_number: int
DcCalls == [fn : {"calculate_dc"}, cell_number : FrameSamples]

\* pfte_bytes_45_hex: str
EvictedPageCalls ==
    [fn : {"identify_evicted_page"},
     pfte_bytes_45_hex : {p[1] : p \in PFTEInputs \ {None}}
                         \cup {Format(n, 16, 4) : n \in PageSamples}]

\* rsize_kb: int
NumCellsCalls == [fn : {"calculate_num_cells"}, rsize_kb : {1, 2, 100, 101, 16384}]

Calls ==
    DecomposeCalls \cup AnalyzeCalls \cup BuildCalls \cup EpaCalls
        \cup RealAddressCalls \cup DcCalls \cup EvictedPageCalls
        \cup NumCellsCalls

\* no call of solve_full_exercise is in progress
NoRequest ==
    /\ dv_hex = <<>>
    /\ pte_hex = <<>>
    /\ rsize_kb = 0
    /\ disk_model = ""
    /\ queues = None
    /\ pfte_bytes_45_hex = None
    /\ dicts = <<>>
    /\ lists = <<>>
    /\ pc = "idle"
    /\ result = <<>>
    /\ queues_before = 0
    /\ q = 0
    /\ steps = <<>>
    /\ iter = 0
    /\ lru = None
    /\ exc = None

UnitInit ==
    /\ \E c \in Calls : call = Some(c)
    /\ ret = None
    /\ menu = "none"
    /\ DISK_MODELS = DISK_MODELS_INIT
    /\ NoRequest

\* the function returned v
Returns(v) == Some([kind |-> "return", value |-> v])

\* the function raised an exception of the given type
Raises(type) == Some([kind |-> "raise", type |-> type])

\* fn has been called and has not finished
Pending(fn) == call /= None /\ call[1].fn = fn /\ ret = None

request == <<args, DISK_MODELS, dicts, lists, pc, result, lruFrame, exc, menu>>

CallDecompose ==
    /\ Pending("decompose_virtual_address")
    /\ ret' = Returns(decompose_virtual_address(call[1].dv_hex))
    /\ UNCHANGED <<call, request>>

CallAnalyzePte ==
    /\ Pending("analyze_pte")
    /\ ret' = Returns(analyze_pte(call[1].pte_hex))
    /\ UNCHANGED <<call, request>>

CallBuildNewPte ==
    /\ Pending("build_new_pte")
    /\ ret' = Returns(build_new_pte(call[1].cell_number))
    /\ UNCHANGED <<call, request>>

\* an entry returned by build_new_pte is handed to analyze_pte
AnalyzeBuiltEntry ==
    /\ call /= None
    /\ call[1].fn = "build_new_pte"
    /\ ret /= None
    /\ \E entry \in {"bi_0_hex", "bi_1_hex"} :
          call' = Some([fn |-> "analyze_pte",
                        pte_hex |-> ret[1].value[entry],
                        entry |-> entry,
                        cell_number |-> call[1].cell_number])
    /\ ret' = None
    /\ UNCHANGED request

\* the absolute page number of a decomposed address, in the four hex digits
\* of num_abs_page_hex, is handed to identify_evicted_page
IdentifyDecomposedPage ==
    /\ call /= None
    /\ call[1].fn = "decompose_virtual_address"
    /\ ret /= None
    /\ call' = Some([fn |-> "identify_evicted_page",
                     pfte_bytes_45_hex |-> ret[1].value.num_abs_page_hex,
                     dv_hex |-> call[1].dv_hex,
                     address |-> ret[1].value])
    /\ ret' = None
    /\ UNCHANGED request

CallCalculateEpa ==
    /\ Pending("calculate_epa")
    /\ LET c == call[1]
       IN  ret' = IF calculate_epa_divides_by_zero(c.tracks_per_cyl,
                                                  c.slots_per_track)
                  THEN Raises("ZeroDivisionError")
                  ELSE Returns(calculate_epa(c.num_abs_page, c.tracks_per_cyl,
                                             c.slots_per_track))
    /\ UNCHANGED <<call, request>>

CallCalculateRealAddress ==
    /\ Pending("calculate_real_address")
    /\ ret' = Returns(calculate_real_address(call[1].cell_number, call[1].d_bin))
    /\ UNCHANGED <<call, request>>

CallCalculateDc ==
    /\ Pending("calculate_dc")
    /\ ret' = Returns(calculate_dc(call[1].cell_number))
    /\ UNCHANGED <<call, request>>

CallIdentifyEvictedPage ==
    /\ Pending("identify_evicted_page")
    /\ ret' = Returns(identify_evicted_page(call[1].pfte_bytes_45_hex))
    /\ UNCHANGED <<call, request>>

CallCalculateNumCells ==
    /\ Pending("calculate_num_cells")
    /\ ret' = Returns(calculate_num_cells(call[1].rsize_kb))
    /\ UNCHANGED <<call, request>>

\* one of the functions runs
CallStep ==
    \/ CallDecompose
    \/ CallAnalyzePte
    \/ CallBuildNewPte
    \/ CallCalculateEpa
    \/ CallCalculateRealAddress
    \/ CallCalculateDc
    \/ CallIdentifyEvictedPage
    \/ CallCalculateNumCells

UnitNext ==
    \/ CallStep
    \/ AnalyzeBuiltEntry
    \/ IdentifyDecomposedPage

UnitSpec == UnitInit /\ [][UnitNext]_vars

\* ------------------------------------------------------------------------
\* main.py: the session of the command-line front end
\* ------------------------------------------------------------------------

\* EXERCISES: "params" of the entries that are not partial
FullExercises ==
    { [dv |-> <<0,3,15,15,10,3>>, pte |-> <<0,5,14,8>>, rsize |-> 100,
       disk |-> "3330", qs |-> None, pfte |-> None],                      \* 3a
      [dv |-> <<0,3,15,15,10,3>>, pte |-> <<1,0,3,12>>, rsize |-> 100,
       disk |-> "3330", qs |-> Some(Queues3b),
       pfte |-> Some(<<0,5,10,2>>)],                                      \* 3b
      [dv |-> <<0,3,15,7,10,3>>, pte |-> <<0,1,3,4>>, rsize |-> 100,
       disk |-> "3350", qs |-> Some(Queues4),
       pfte |-> Some(<<0,5,10,2>>)],                                      \* 4a
      [dv |-> <<0,3,15,7,10,3>>, pte |-> <<1,0,3,3>>, rsize |-> 100,
       disk |-> "3350", qs |-> Some(Queues4),
       pfte |-> Some(<<0,5,10,2>>)],                                      \* 4b
      [dv |-> <<0,5,15,7,15,15>>, pte |-> <<0,0,0,4>>, rsize |-> 100,
       disk |-> "3350", qs |-> None, pfte |-> None],                      \* 5a
      [dv |-> <<0,5,15,7,15,15>>, pte |-> <<0,1,3,3>>, rsize |-> 100,
       disk |-> "3350", qs |-> Some(Queues5b),
       pfte |-> Some(<<0,5,4,5>>)],                                       \* 5b
      [dv |-> <<0,4,5,6,0,10>>, pte |-> <<5,4,8,4>>, rsize |-> 100,
       disk |-> "3330", qs |-> Some(QueuesExam2324), pfte |-> None],      \* exam2324
      [dv |-> <<0,0,10,8,4,5>>, pte |-> <<2,5,6,5>>, rsize |-> 100,
       disk |-> "3350", qs |-> Some(QueuesExtra1),
       pfte |-> Some(<<1,5,4,2>>)] }                                      \* extra1

\* EXERCISES: "params" of the partial entry (exercise 6)
PartialExercises ==
    { [num_abs_page |-> 1442, cell_number |-> 23, disk_model |-> "3350",
       rsize_kb |-> 100] }

\* variant of input_int: the first answer is returned without the check
input_int_unchecked(raws, positive) == raws[1]

\* input_int: the question is repeated until the answer is accepted; raws
\* are the integers typed, in order, the last one being acceptable
input_int(raws, positive) ==
    raws[CHOOSE i \in 1..Len(raws) :
            /\ ~(positive /\ raws[i] <= 0)
            /\ \A j \in 1..(i - 1) : positive /\ raws[j] <= 0]

\* answers to input_disk_model: a listed model, or "4" and the integers
\* typed for the two questions, some of them after a rejected answer
DiskAnswers ==
    [choice : {"1", "2", "3"}, tpc : {<<>>}, spt : {<<>>}]
        \cup [choice : {"4"}, tpc : {<<4>>, <<0, 4>>},
                             spt : {<<1>>, <<0 - 3, 2>>}]

\* input_disk_model: the key returned and the catalog after the call
input_disk_model(answer, models) ==
    IF answer.choice = "4"
    THEN LET tpc == input_int(answer.tpc, TRUE)
             spt == input_int(answer.spt, TRUE)
             model_name == "custom_" \o ToString(tpc) \o "x" \o ToString(spt)
         IN  [name |-> model_name,
              models |-> (model_name :> [tracks_per_cyl |-> tpc,
                                         slots_per_track |-> spt])
                            @@ models]
    ELSE [name |-> CASE answer.choice = "1" -> "3330"
                     [] answer.choice = "2" -> "3340"
                     [] answer.choice = "3" -> "3350",
          models |-> models]

\* answers of the interactive mode: input_hex takes exactly 6 and 4 digits
InteractiveAnswers ==
    [disk : DiskAnswers, rsize : {100}, dv : {<<0,3,15,15,10,3>>},
     pte : {<<0,5,14,8>>, <<1,0,3,12>>}]

\* input_all_queues: all five names, entries with R and C in {0, 1}
EnteredQueueSets ==
    {qs \in BoundedQueueSets :
        Len(qs["Q00"]) + Len(qs["Q01"]) + Len(qs["Q10"]) + Len(qs["Q11"])
            + Len(qs["HQ"]) <= MaxEntered}
        \cup {LongQueueSet}

\* answers to the question for octets 4-5 of the PFTE
EnteredPFTE == {<<0,5,10,2>>, <<15,15,15,15>>}

\* the operations of the calculator with their validated answers
CalculatorCalls ==
    [fn : {"decompose_virtual_address"}, dv_hex : DVInputs]
      \cup AnalyzeCalls
      \cup [fn : {"calculate_real_address"}, cell_number : {0, 23},
            d_bin : {Format(d, 2, 11) : d \in OffsetSamples}]
      \cup [fn : {"calculate_dc"}, cell_number : {0, 23}]
      \cup [fn : {"build_new_pte"}, cell_number : {0, 23, 8195}]
      \cup [fn : {"identify_evicted_page"},
            pfte_bytes_45_hex : {p[1] : p \in PFTEInputs \ {None}}]
      \cup [fn : {"calculate_num_cells"}, rsize_kb : {100}]

\* the positions at which the session waits for a line of input
Waiting == {"main", "pause", "calculator", "calculator_pause"}

SessionInit ==
    /\ menu = "main"
    /\ call = None
    /\ ret = None
    /\ DISK_MODELS = DISK_MODELS_INIT
    /\ NoRequest

\* the frame of the finished option is gone
ForgetRequest ==
    /\ dv_hex' = <<>>
    /\ pte_hex' = <<>>
    /\ rsize_kb' = 0
    /\ disk_model' = ""
    /\ queues' = None
    /\ pfte_bytes_45_hex' = None
    /\ dicts' = <<>>
    /\ lists' = <<>>
    /\ pc' = "idle"
    /\ result' = <<>>
    /\ queues_before' = 0
    /\ q' = 0
    /\ steps' = <<>>
    /\ iter' = 0
    /\ lru' = None
    /\ exc' = None

\* main: choice "0"
Quit ==
    /\ menu = "main"
    /\ menu' = "exited"
    /\ UNCHANGED <<args, DISK_MODELS, dicts, lists, pc, result, lruFrame, exc,
                   call, ret>>

\* Ctrl+C or end of input while a line is awaited: sys.exit(0)
Interrupt ==
    /\ menu \in Waiting
    /\ menu' = "interrupted"
    /\ UNCHANGED <<args, DISK_MODELS, dicts, lists, pc, result, lruFrame, exc,
                   call, ret>>

\* run_preloaded, _run_full_exercise: solve_full_exercise(**ex["params"])
RunFullExercise ==
    /\ menu = "main"
    /\ \E ex \in FullExercises :
          /\ dv_hex' = ex.dv
          /\ pte_hex' = ex.pte
          /\ rsize_kb' = ex.rsize
          /\ disk_model' = ex.disk
          /\ pfte_bytes_45_hex' = ex.pfte
          /\ IF ex.qs = None
             THEN /\ queues' = None
                  /\ dicts' = <<>>
                  /\ lists' = <<>>
             ELSE LET qs == ex.qs[1]
                      ks == KeysInOrder(qs)
                  IN  /\ queues' = Some(1)
                      /\ dicts' = <<[n \in DOMAIN qs |-> IndexIn(ks, n)]>>
                      /\ lists' = [i \in 1..Len(ks) |-> qs[ks[i]]]
    /\ pc' = "start"
    /\ menu' = "preloaded"
    /\ UNCHANGED <<DISK_MODELS, result, lruFrame, exc, call, ret>>

\* _run_full_exercise: the result is displayed, then pause()
FullExerciseShown ==
    /\ menu = "preloaded"
    /\ pc = "Resolved"
    /\ menu' = "pause"
    /\ UNCHANGED <<args, DISK_MODELS, dicts, lists, pc, result, lruFrame, exc,
                   call, ret>>

\* _run_full_exercise: except Exception, the error is printed, then pause()
FullExerciseFailed ==
    /\ menu = "preloaded"
    /\ pc = "Failed"
    /\ exc' = None
    /\ menu' = "pause"
    /\ UNCHANGED <<args, DISK_MODELS, dicts, lists, pc, result, lruFrame,
                   call, ret>>

\* run_preloaded, _run_partial_exercise: EPA and DC of a page-out
RunPartialExercise ==
    /\ menu = "main"
    /\ \E ex \in PartialExercises :
          LET dsk == DISK_MODELS[ex.disk_model]
          IN  result' = [epa |-> calculate_epa(ex.num_abs_page, dsk.tracks_per_cyl,
                                               dsk.slots_per_track),
                         dc |-> calculate_dc(ex.cell_number)]
    /\ menu' = "pause"
    /\ UNCHANGED <<args, DISK_MODELS, dicts, lists, pc, lruFrame, exc, call, ret>>

\* pause() returns and the option returns to main
Continue ==
    /\ menu = "pause"
    /\ menu' = "main"
    /\ ForgetRequest
    /\ UNCHANGED <<DISK_MODELS, call, ret>>

\* run_interactive, entry without fault: the real address directly
InteractiveNoFault ==
    /\ menu = "main"
    /\ \E a \in InteractiveAnswers :
          LET chosen == input_disk_model(a.disk, DISK_MODELS)
              addr == decompose_virtual_address(a.dv)
              pte == analyze_pte(a.pte)
          IN  /\ ~pte.is_page_fault
              /\ DISK_MODELS' = chosen.models
              /\ disk_model' = chosen.name
              /\ rsize_kb' = a.rsize
              /\ dv_hex' = a.dv
              /\ pte_hex' = a.pte
              /\ result' = [address |-> addr,
                            num_cells |-> calculate_num_cells(a.rsize),
                            pte |-> pte,
                            page_fault |-> FALSE,
                            real_address |->
                                calculate_real_address(pte["cell_number"],
                                                       addr.d_bin),
                            disk_model |-> chosen.name]
    /\ menu' = "pause"
    /\ UNCHANGED <<queues, pfte_bytes_45_hex, dicts, lists, pc, lruFrame, exc,
                   call, ret>>

\* run_interactive, faulted entry: the queues are typed in and
\* run_lru_second_chance is called
InteractiveFault ==
    /\ menu = "main"
    /\ \E a \in InteractiveAnswers, qs \in EnteredQueueSets :
          LET chosen == input_disk_model(a.disk, DISK_MODELS)
              ks == KeysInOrder(qs)
          IN  /\ analyze_pte(a.pte).is_page_fault
              /\ DISK_MODELS' = chosen.models
              /\ disk_model' = chosen.name
              /\ rsize_kb' = a.rsize
              /\ dv_hex' = a.dv
              /\ pte_hex' = a.pte
              /\ queues' = Some(1)
              /\ dicts' = <<[n \in DOMAIN qs |-> IndexIn(ks, n)]>>
              /\ lists' = [i \in 1..Len(ks) |-> qs[ks[i]]]
    /\ pc' = "FaultDetected"
    /\ menu' = "interactive"
    /\ UNCHANGED <<pfte_bytes_45_hex, result, lruFrame, exc, call, ret>>

\* run_interactive after the evictor returned: the PFTE is typed in and the
\* remaining steps f) to k) are computed
InteractiveFinish ==
    /\ menu = "interactive"
    /\ pc = "lru_return"
    /\ \E pfte_hex \in EnteredPFTE :
          LET addr == decompose_virtual_address(dv_hex)
              evicted == identify_evicted_page(pfte_hex)
              dsk == DISK_MODELS[disk_model]
              base == [address |-> addr,
                       num_cells |-> calculate_num_cells(rsize_kb),
                       pte |-> analyze_pte(pte_hex),
                       page_fault |-> TRUE,
                       disk_model |-> disk_model,
                       lru |-> lru[1],
                       evicted_page |-> evicted,
                       page_in |->
                           [epa |-> calculate_epa(addr.num_abs_page,
                                                  dsk.tracks_per_cyl,
                                                  dsk.slots_per_track),
                            dc |-> calculate_dc(lru[1].victim_cell)],
                       new_pte |-> build_new_pte(lru[1].victim_cell),
                       real_address |->
                           calculate_real_address(lru[1].victim_cell, addr.d_bin)]
          IN  /\ pfte_bytes_45_hex' = Some(pfte_hex)
              /\ result' =
                    IF lru[1].needs_pageout
                    THEN Assign(base, "page_out",
                                [epa |-> calculate_epa(evicted.num_abs_page,
                                                       dsk.tracks_per_cyl,
                                                       dsk.slots_per_track),
                                 dc |-> calculate_dc(lru[1].victim_cell)])
                    ELSE base
    /\ menu' = "pause"
    /\ UNCHANGED <<dv_hex, pte_hex, rsize_kb, disk_model, queues, DISK_MODELS,
                   dicts, lists, pc, lruFrame, exc, call, ret>>

\* an exception of run_lru_second_chance leaves run_interactive and main:
\* neither has a handler, and the handler around main() takes only
\* KeyboardInterrupt and EOFError
InteractiveUncaught ==
    /\ menu = "interactive"
    /\ pc = "Failed"
    /\ menu' = "crashed"
    /\ UNCHANGED <<args, DISK_MODELS, dicts, lists, pc, result, lruFrame, exc,
                   call, ret>>

\* main: choice "3"
OpenCalculator ==
    /\ menu = "main"
    /\ menu' = "calculator"
    /\ UNCHANGED <<args, DISK_MODELS, dicts, lists, pc, result, lruFrame, exc,
                   call, ret>>

\* run_calculator: choice "0"
CloseCalculator ==
    /\ menu = "calculator"
    /\ menu' = "main"
    /\ UNCHANGED <<args, DISK_MODELS, dicts, lists, pc, result, lruFrame, exc,
                   call, ret>>

\* run_calculator: choices 1 to 3 and 5 to 8, the answers are read and the
\* function is called
CalculatorCall ==
    /\ menu = "calculator"
    /\ \E c \in CalculatorCalls : call' = Some(c)
    /\ ret' = None
    /\ menu' = "calculator_call"
    /\ UNCHANGED <<args, DISK_MODELS, dicts, lists, pc, result, lruFrame, exc>>

\* run_calculator: choice 4, the page and the disk model are read and
\* calculate_epa is called
CalculatorEpa ==
    /\ menu = "calculator"
    /\ \E nap \in {0 - 1, 0, 1442}, a \in DiskAnswers :
          LET chosen == input_disk_model(a, DISK_MODELS)
              dsk == chosen.models[chosen.name]
          IN  /\ DISK_MODELS' = chosen.models
              /\ call' = Some([fn |-> "calculate_epa",
                               num_abs_page |-> nap,
                               tracks_per_cyl |-> dsk.tracks_per_cyl,
                               slots_per_track |-> dsk.slots_per_track])
    /\ ret' = None
    /\ menu' = "calculator_call"
    /\ UNCHANGED <<args, dicts, lists, pc, result, lruFrame, exc>>

\* run_calculator: choice 3 with a displacement outside 0..2047, an error
\* is printed and no function is called
CalculatorRangeError ==
    /\ menu = "calculator"
    /\ call' = None
    /\ ret' = None
    /\ menu' = "calculator_pause"
    /\ UNCHANGED <<args, DISK_MODELS, dicts, lists, pc, result, lruFrame, exc>>

\* run_calculator: the value returned is printed, then pause()
CalculatorShown ==
    /\ menu = "calculator_call"
    /\ ret /= None
    /\ ret[1].kind = "return"
    /\ menu' = "calculator_pause"
    /\ UNCHANGED <<args, DISK_MODELS, dicts, lists, pc, result, lruFrame, exc,
                   call, ret>>

\* run_calculator: pause() returns, back to the menu of the calculator
CalculatorContinue ==
    /\ menu = "calculator_pause"
    /\ call' = None
    /\ ret' = None
    /\ menu' = "calculator"
    /\ UNCHANGED <<args, DISK_MODELS, dicts, lists, pc, result, lruFrame, exc>>

\* the steps of run_lru_second_chance
LruStep ==
    \/ LruEnter
    \/ LruRaiseEmpty
    \/ LruRotate
    \/ LruVictim
    \/ LruSecondChance
    \/ LruLimit

SessionNext ==
    \/ Quit
    \/ Interrupt
    \/ RunFullExercise
    \/ FullExerciseShown
    \/ FullExerciseFailed
    \/ RunPartialExercise
    \/ Continue
    \/ InteractiveNoFault
    \/ InteractiveFault
    \/ InteractiveFinish
    \/ InteractiveUncaught
    \/ OpenCalculator
    \/ CloseCalculator
    \/ CalculatorCall
    \/ CalculatorEpa
    \/ CalculatorRangeError
    \/ CalculatorShown
    \/ CalculatorContinue
    \/ menu = "preloaded" /\ Next
    \/ menu = "interactive" /\ LruStep
    \/ menu = "calculator_call" /\ CallStep

SessionSpec == SessionInit /\ [][SessionNext]_vars

\* ------------------------------------------------------------------------
\* Properties
\* ------------------------------------------------------------------------

\* the number a digit string denotes, summed position by position
RECURSIVE PlaceSum(_, _, _)
PlaceSum(s, base, i) ==
    IF i > Len(s) THEN 0
    ELSE s[i] * Pow(base, Len(s) - i) + PlaceSum(s, base, i + 1)

\* the request's virtual address and page-table entry as numbers
RequestedAddress == PlaceSum(dv_hex, 16, 1)

RequestedEntry == PlaceSum(pte_hex, 16, 1)

\* the validity bit (bit 2) of the request's page-table entry is 1
EntryFaults == (RequestedEntry \div 4) % 2 = 1

\* solve_full_exercise has returned its result
Returned == pc = "Resolved"

\* the stages up to the analysis of the entry
EarlyStages == {"start", "Decomposed", "Analyzed"}

\* the evictor has been entered and has not finished
LruRunning == pc = "lru_loop"

NoVictimError ==
    Some([type |-> "RuntimeError",
          msg |-> "LRU: todas las colas estan vacias, no hay victima posible"])

LimitError ==
    Some([type |-> "RuntimeError",
          msg |-> "LRU: limite de iteraciones alcanzado sin encontrar victima"])

MissingQueuesError ==
    Some([type |-> "ValueError",
          msg |-> "Page fault detectado pero no se proporcionaron colas LRU"])

\* C1: whenever run_lru_second_chance returns a victim, the victim's R is 0,
\* and it is the R the entry had at the head of Q00 when it was removed.
C1_VictimUnreferenced ==
    [][(LruRunning /\ lru' /= None) =>
          /\ lru'[1].victim_R = 0
          /\ Head00[2] = 0
          /\ lru'[1].victim_cell = Head00[1]]_vars

\* C1 witness: a victim was returned after an entry got its second chance.
C1_Witness ==
    /\ lru /= None
    /\ \E i \in 1..Len(steps) : steps[i].action = "second_chance"

\* the evictor has finished with exactly one of its three outcomes
LruOutcome ==
    \/ pc = "lru_return" /\ lru /= None /\ exc = None
    \/ pc = "Failed" /\ lru = None /\ exc = NoVictimError
    \/ pc = "Failed" /\ lru = None /\ exc = LimitError /\ iter = max_iterations

\* C2: the evictor never starts more than max_iterations loop iterations and
\* always ends with a victim, with the empty-queues error or, when the
\* iterations are used up, with the limit error.
C2_Terminates ==
    /\ [](iter <= max_iterations)
    /\ [][LruRunning /\ pc' /= "lru_loop" => LruOutcome']_vars
    /\ (LruRunning ~> LruOutcome)

\* C2 witness: the run used all its iterations and ended with the limit error.
C2_Witness ==
    /\ pc = "Failed"
    /\ exc = LimitError
    /\ iter = max_iterations
    /\ Len(steps) = max_iterations

\* C4: a fault without queues ends in ValueError and returns nothing; a
\* faulted translation that returns has run the evictor.
C4_FaultWithoutQueuesFails ==
    /\ (EntryFaults /\ queues = None /\ pc \notin EarlyStages) =>
          (pc = "Failed" /\ exc = MissingQueuesError /\ lru = None)
    /\ (EntryFaults /\ Returned) =>
          (lru /= None /\ "lru" \in DOMAIN result /\ result["lru"] = lru[1])

\* C4 witness: a faulted request without queues has failed.
C4_Witness ==
    /\ EntryFaults
    /\ queues = None
    /\ pc = "Failed"

ResultKeysWithoutLocator ==
    {"address", "num_cells", "pte", "disk_model", "page_fault", "lru",
     "page_in", "new_pte", "real_address"}

C6_PageOutIffModified ==
    /\ [](lru /= None => (lru[1].needs_pageout <=> lru[1].victim_C = 1))
    /\ [][LruRunning /\ lru' /= None => lru'[1].victim_C = Head00[3]]_vars
    /\ [][pc = "EvictedPageIdentified" =>
             pc' = (IF lru[1].victim_C = 1 THEN "PageOutComputed"
                                           ELSE "PageInComputed")]_vars
    /\ []((pc \in {"PageInComputed", "EntriesRebuilt", "Resolved"}
             /\ EntryFaults /\ pfte_bytes_45_hex /= None) =>
             (("page_out" \in DOMAIN result) <=> lru[1].victim_C = 1))

\* C6 witness: a result with page_out, for a victim with C = 1.
C6_Witness ==
    /\ Returned
    /\ pfte_bytes_45_hex /= None
    /\ "page_out" \in DOMAIN result
    /\ lru[1].victim_C = 1

\* the absolute page number of the requested address
RequestedPage == (RequestedAddress \div 2048) % 8192

\* C7: every faulted translation that returns has page_in; its locator is
\* the geometry mapping of the requested absolute page number and its base
\* address is victim cell * 2048.
C7_PageIn ==
    /\ (EntryFaults /\ Returned) => "page_in" \in DOMAIN result
    /\ "page_in" \in DOMAIN result =>
          LET epa == result["page_in"].epa
              g == DISK_MODELS_INIT[disk_model]
              spc == g.tracks_per_cyl * g.slots_per_track
          IN  /\ epa.cylinder * spc + epa.track * g.slots_per_track + epa.slot
                    = RequestedPage
              /\ epa.cylinder >= 0
              /\ epa.track \in 0..(g.tracks_per_cyl - 1)
              /\ epa.slot \in 0..(g.slots_per_track - 1)
              /\ epa.slots_per_cyl = spc
              /\ epa.slots_per_track = g.slots_per_track
              /\ result["page_in"].dc.dc_dec = steps[Len(steps)].cell * 2048

\* C7 witness: page-in for a page beyond the first cylinder, into a victim
\* cell that is neither the evicted page's number nor the entry's payload.
C7_Witness ==
    /\ Returned
    /\ "page_in" \in DOMAIN result
    /\ result["page_in"].epa.cylinder > 0
    /\ "evicted_page" \in DOMAIN result
    /\ result["evicted_page"].num_abs_page /= lru[1].victim_cell
    /\ RequestedEntry \div 8 /= lru[1].victim_cell

\* the general part of C8: the final address of either branch
RealAddressFormula ==
    Returned =>
       /\ "real_address" \in DOMAIN result
       /\ result["real_address"].dr_dec =
             (IF EntryFaults THEN steps[Len(steps)].cell * 2048
                             ELSE (RequestedEntry \div 8) * 2048)
             + (RequestedAddress % 2048)

\* the request dV = 03FFA3, PTE = 05E8 has returned
ReferenceScenario ==
    Returned /\ dv_hex = <<0,3,15,15,10,3>> /\ pte_hex = <<0,5,14,8>>

\* C8 as stated: every returned result has real_address; without fault it is
\* (PTE >> 3) * 2048 + offset, with fault victim cell * 2048 + offset, and
\* dV = 03FFA3 with PTE = 05E8 gives 388003 = 05EBA3.
C8_Original ==
    /\ RealAddressFormula
    /\ ReferenceScenario =>
          /\ result["real_address"].dr_dec = 388003
          /\ result["real_address"].dr_hex = <<0,5,14,11,10,3>>

\* C8 amended: the same addresses, and dV = 03FFA3 with PTE = 05E8 gives
\* 389027 = 05EFA3 (the offset 03FFA3 & 7FF is 7A3 = 1955).
C8_RealAddress ==
    /\ RealAddressFormula
    /\ ReferenceScenario =>
          /\ result["real_address"].dr_dec = 389027
          /\ result["real_address"].dr_hex = <<0,5,14,15,10,3>>

\* C8 witness: a faulted translation returned an address with offset > 1.
C8_Witness ==
    /\ Returned
    /\ EntryFaults
    /\ RequestedAddress % 2048 > 1
    /\ result["real_address"].dr_dec > 2048

\* C9: no step changes the caller's queue mapping or any sequence in it,
\* and on success queues_before holds the input queue state.
C9_CallerQueuesUntouched ==
    /\ [][queues /= None =>
             /\ dicts'[queues[1]] = dicts[queues[1]]
             /\ Contents(dicts', lists', queues[1])
                   = Contents(dicts, lists, queues[1])]_vars
    /\ [](lru /= None =>
             Contents(dicts, lists, lru[1].queues_before)
                = Contents(dicts, lists, queues[1]))

\* C9 witness: the evictor returned and its working copy differs from the
\* caller's queues.
C9_Witness ==
    /\ lru /= None
    /\ \E n \in DOMAIN dicts[queues[1]] :
          lists[dicts[q][n]] /= lists[dicts[queues[1]][n]]

\* C10: for a 24-bit address v the decomposition gives segment in 0..255,
\* page in 0..31, offset in 0..2047 and segment*2^16 + page*2^11 + offset = v.
C10_DecompositionInvertible ==
    (pc /= "start" /\ RequestedAddress < 16777216) =>
       LET a == result["address"]
       IN  /\ a.S_dec \in 0..255
           /\ a.P_dec \in 0..31
           /\ a.d_dec \in 0..2047
           /\ a.S_dec * 65536 + a.P_dec * 2048 + a.d_dec = RequestedAddress

\* C10 witness: an address with non-zero segment, page and offset is decomposed.
C10_Witness ==
    /\ pc = "Decomposed"
    /\ result["address"].S_dec > 0
    /\ result["address"].P_dec > 0
    /\ result["address"].d_dec > 0

\* ------------------------------------------------------------------------
\* Properties of the functions called on their own
\* ------------------------------------------------------------------------

\* the direct call of fn has returned a value
CallReturned(fn) ==
    call /= None /\ call[1].fn = fn /\ ret /= None /\ ret[1].kind = "return"

\* the direct call of fn has ended, with a value or an exception
CallEnded(fn) == call /= None /\ call[1].fn = fn /\ ret /= None

\* the exception the code uses for invalid input
InvalidInput == Raises("ValueError")

\* the number denoted by the text passed to decompose_virtual_address
CalledAddress == PlaceSum(call[1].dv_hex, 16, 1)

\* C11: whenever decompose_virtual_address returns, segment*32 + page lies
\* in 0..8191; for an address of at most 24 bits it equals v >> 11, so that
\* segment and page are its quotient and remainder by 32.
C11_AbsolutePageNumber ==
    CallReturned("decompose_virtual_address") =>
       LET a == ret[1].value
       IN  /\ a.num_abs_page = a.S_dec * 32 + a.P_dec
           /\ a.num_abs_page \in 0..8191
           /\ CalledAddress < 16777216 =>
                 /\ a.num_abs_page = CalledAddress \div 2048
                 /\ a.S_dec = a.num_abs_page \div 32
                 /\ a.P_dec = a.num_abs_page % 32

\* C11 witness: a 24-bit address in the last page of a segment other than
\* the first has been decomposed.
C11_Witness ==
    /\ CallReturned("decompose_virtual_address")
    /\ CalledAddress < 16777216
    /\ ret[1].value.S_dec > 0
    /\ ret[1].value.P_dec = 31
    /\ ret[1].value.num_abs_page > 8000

\* analyze_pte has returned for an entry built for a cell number in 0..8191
BuiltEntryAnalyzed(entry) ==
    /\ CallReturned("analyze_pte")
    /\ "entry" \in DOMAIN call[1]
    /\ call[1].entry = entry
    /\ call[1].cell_number \in 0..8191

\* C12: for f in 0..8191, analyze_pte of build_new_pte(f).bi_0 reports no
\* fault and cell number f, and analyze_pte of build_new_pte(f).bi_1 reports
\* a fault.
C12_BuildAnalyzeRoundTrip ==
    /\ BuiltEntryAnalyzed("bi_0_hex") =>
          /\ ~ret[1].value.is_page_fault
          /\ ret[1].value["cell_number"] = call[1].cell_number
    /\ BuiltEntryAnalyzed("bi_1_hex") => ret[1].value.is_page_fault

\* C12 witness: the valid entry of the largest cell number has been analyzed.
C12_Witness ==
    /\ BuiltEntryAnalyzed("bi_0_hex")
    /\ call[1].cell_number = 8191
    /\ call[1].pte_hex = <<15, 15, 15, 8>>

\* C13: for tracks > 0, slots > 0 and page >= 0, calculate_epa returns
\* cylinder, track and slot with
\* cylinder * (tracks * slots) + track * slots + slot = page.
C13_EpaInvertsFormula ==
    (/\ CallEnded("calculate_epa")
     /\ call[1].tracks_per_cyl > 0
     /\ call[1].slots_per_track > 0
     /\ call[1].num_abs_page >= 0) =>
       /\ ret[1].kind = "return"
       /\ LET e == ret[1].value
               spc == call[1].tracks_per_cyl * call[1].slots_per_track
           IN  e.cylinder * spc + e.track * call[1].slots_per_track + e.slot
                  = call[1].num_abs_page

\* C13 witness: a locator with non-zero cylinder, track and slot, on a
\* geometry that is not in the catalog.
C13_Witness ==
    /\ CallReturned("calculate_epa")
    /\ call[1].tracks_per_cyl = 3
    /\ call[1].slots_per_track = 2
    /\ ret[1].value.cylinder > 0
    /\ ret[1].value.track > 0
    /\ ret[1].value.slot > 0

\* C14: a value that does not fit in 24 bits is rejected by
\* decompose_virtual_address with InvalidInput, not decomposed.
C14_RejectsWideAddress ==
    (CallEnded("decompose_virtual_address") /\ CalledAddress >= 16777216) =>
       ret = InvalidInput

\* C15: calculate_epa fails with InvalidInput whenever tracks per cylinder
\* or slots per track is <= 0.
C15_RejectsBadGeometry ==
    (/\ CallEnded("calculate_epa")
     /\ (call[1].tracks_per_cyl <= 0 \/ call[1].slots_per_track <= 0)) =>
       ret = InvalidInput

\* the number denoted by the text passed to calculate_real_address
CalledOffset == PlaceSum(call[1].d_bin, 2, 1)

\* C16: calculate_real_address fails with InvalidInput for an offset
\* outside 0..2047.
C16_RejectsWideOffset ==
    (CallEnded("calculate_real_address") /\ CalledOffset \notin 0..2047) =>
       ret = InvalidInput

\* ------------------------------------------------------------------------
\* Properties of the evictor
\* ------------------------------------------------------------------------

\* queue n of the caller's mapping; a name that is missing counts as empty
InputQueue(n) ==
    LET d == dicts[queues[1]]
    IN  IF n \in DOMAIN d THEN lists[d[n]] ELSE <<>>

\* the place in QUEUE_ORDER of the first queue of the input that has entries
FirstNonEmpty ==
    CHOOSE k \in 1..Len(QUEUE_ORDER) :
        /\ InputQueue(QUEUE_ORDER[k]) /= <<>>
        /\ \A j \in 1..(k - 1) : InputQueue(QUEUE_ORDER[j]) = <<>>

\* the positions of the entries of s whose R is 0
Unreferenced(s) == {i \in 1..Len(s) : s[i][2] = 0}

\* the first position with R = 0 if there is one, otherwise the head
ExpectedPosition(s) ==
    IF Unreferenced(s) = {} THEN 1
    ELSE CHOOSE i \in Unreferenced(s) : \A j \in Unreferenced(s) : i <= j

\* how many steps of the log have the given action
CountSteps(a) == Cardinality({i \in 1..Len(steps) : steps[i].action = a})

\* C18: in a successful run the victim is the entry of the first non-empty
\* input queue (in the order Q00, Q01, Q10, Q11, HQ) at the first position
\* whose R is 0, or at the head when no entry of that queue has R = 0; the
\* position depends on the R bits alone: the run makes one rotation per
\* empty queue in front and one second chance per entry in front of the
\* victim (per entry of the queue when none has R = 0).
C18_VictimByQueueThenPosition ==
    lru /= None =>
       LET k == FirstNonEmpty
           s == InputQueue(QUEUE_ORDER[k])
           pos == ExpectedPosition(s)
       IN  /\ lru[1].victim_cell = s[pos][1]
           /\ lru[1].victim_C = s[pos][3]
           /\ CountSteps("rotate_queues") = k - 1
           /\ CountSteps("second_chance") =
                 (IF Unreferenced(s) = {} THEN Len(s) ELSE pos - 1)

\* C18 witness: every entry of Q00 was referenced, a later queue holds an
\* entry with R = 0 and Q00 holds a lower cell number than its head; the
\* original head of Q00 is the victim.
C18_Witness ==
    /\ lru /= None
    /\ InputQueue("Q00") /= <<>>
    /\ Unreferenced(InputQueue("Q00")) = {}
    /\ \E n \in QueueNames \ {"Q00"} : Unreferenced(InputQueue(n)) /= {}
    /\ \E i \in 2..Len(InputQueue("Q00")) :
          InputQueue("Q00")[i][1] < InputQueue("Q00")[1][1]
    /\ lru[1].victim_cell = InputQueue("Q00")[1][1]

\* the step appends a rotate_queues entry to the log
RotationLogged ==
    /\ Len(steps') = Len(steps) + 1
    /\ steps'[Len(steps')].action = "rotate_queues"
    /\ SubSeq(steps', 1, Len(steps)) = steps

\* the queue set one tier down
Shifted(old) ==
    [Q00 |-> old["Q01"], Q01 |-> old["Q10"], Q10 |-> old["Q11"],
     Q11 |-> old["HQ"], HQ |-> <<>>]

\* C19: a step of the evictor that rotates has Q00 empty and one of Q01,
\* Q10, Q11, HQ non-empty, leaves exactly the old queues one tier down with
\* HQ empty and appends one rotate_queues step; no other step changes Q01,
\* Q10, Q11 or HQ.
C19_RotationShiftsTiers ==
    [][LruRunning =>
         LET old == Contents(dicts, lists, q)
             new == Contents(dicts', lists', q)
         IN  /\ RotationLogged =>
                   /\ old["Q00"] = <<>>
                   /\ \E n \in QueueNames \ {"Q00"} : old[n] /= <<>>
                   /\ new = Shifted(old)
             /\ ~RotationLogged =>
                   \A n \in QueueNames \ {"Q00"} : new[n] = old[n]]_vars

\* C19 witness: two rotations have brought the input's Q10 to Q00 and the
\* input's HQ to Q10.
C19_Witness ==
    /\ LruRunning
    /\ Len(steps) = 2
    /\ steps[2].action = "rotate_queues"
    /\ lists[dicts[q]["Q00"]] = InputQueue("Q10")
    /\ lists[dicts[q]["Q10"]] = InputQueue("HQ")
    /\ InputQueue("Q10") /= <<>>
    /\ InputQueue("HQ") /= <<>>

\* the entries of a queue set, queue after queue
AllEntries(c) == c["Q00"] \o c["Q01"] \o c["Q10"] \o c["Q11"] \o c["HQ"]

\* C20 as stated: after a rotation HQ is empty and no entry that was in HQ
\* is in the queue set any more.
C20_Original ==
    [][(LruRunning /\ RotationLogged) =>
         LET old == Contents(dicts, lists, q)
             new == Contents(dicts', lists', q)
         IN  /\ new["HQ"] = <<>>
             /\ \A i \in 1..Len(old["HQ"]) :
                   \A j \in 1..Len(AllEntries(new)) :
                       AllEntries(new)[j] /= old["HQ"][i]]_vars

\* C20 amended: after a rotation HQ is empty and the entries that were in
\* HQ are the new Q11, in the same order; the queue set holds the same
\* entries as before the rotation.
C20_RotationKeepsHQEntries ==
    [][(LruRunning /\ RotationLogged) =>
         LET old == Contents(dicts, lists, q)
             new == Contents(dicts', lists', q)
         IN  /\ new["HQ"] = <<>>
             /\ new["Q11"] = old["HQ"]
             /\ AllEntries(new) = AllEntries(old)]_vars

\* C20 witness: after the first rotation Q11 holds the entries the input
\* had in HQ, and HQ is empty.
C20_Witness ==
    /\ LruRunning
    /\ Len(steps) = 1
    /\ steps[1].action = "rotate_queues"
    /\ InputQueue("HQ") /= <<>>
    /\ lists[dicts[q]["Q11"]] = InputQueue("HQ")
    /\ lists[dicts[q]["HQ"]] = <<>>

\* ------------------------------------------------------------------------
\* Properties of the session
\* ------------------------------------------------------------------------

\* C17: the session never ends by an engine error: it ends only by choice 0
\* at the main menu or by Ctrl+C / end of input, and after an error of the
\* engine the next move of the front end is to report it and wait at the
\* pause that leads back to the main menu.
C17_SessionSurvivesEngineErrors ==
    /\ [](menu /= "crashed")
    /\ [][menu' = "exited" => menu = "main"]_vars
    /\ [][(pc = "Failed" /\ menu \notin Waiting /\ menu' /= menu) =>
             menu' = "pause"]_vars

\* ------------------------------------------------------------------------
\* Properties of one loop iteration of the evictor
\* ------------------------------------------------------------------------

\* an iteration is about to examine a head of Q00 whose R is not 0
HeadReferenced ==
    /\ LruRunning
    /\ LoopContinues(iter)
    /\ lists[dicts[q]["Q00"]] /= <<>>
    /\ Head00[2] /= 0

\* C21: a second chance (the head of Q00 has R /= 0) removes the head of Q00
\* and appends the same cell to the tail of Q00 with R = 0 and its C bit
\* unchanged; the length of Q00 and the order of its other entries stay,
\* Q01, Q10, Q11 and HQ stay, the queue names keep their lists (no
\* rotation), and exactly one second_chance step is appended to the log.
C21_SecondChance ==
    [][HeadReferenced =>
         LET old == Contents(dicts, lists, q)
             new == Contents(dicts', lists', q)
             n == Len(old["Q00"])
         IN  /\ Len(new["Q00"]) = n
             /\ new["Q00"][n] = <<Head00[1], 0, Head00[3]>>
             /\ SubSeq(new["Q00"], 1, n - 1) = Tail(old["Q00"])
             /\ \A m \in QueueNames \ {"Q00"} : new[m] = old[m]
             /\ dicts'[q] = dicts[q]
             /\ Len(steps') = Len(steps) + 1
             /\ SubSeq(steps', 1, Len(steps)) = steps
             /\ steps'[Len(steps')].action = "second_chance"
             /\ steps'[Len(steps')].cell = Head00[1]
             /\ pc' = "lru_loop"
             /\ lru' = None]_vars

\* C21 witness: the last step gave a second chance to a modified entry that
\* had another entry behind it; the entry is now the tail of Q00 with R = 0
\* and C = 1, and the entry that was behind it is the head.
C21_Witness ==
    /\ LruRunning
    /\ steps /= <<>>
    /\ steps[Len(steps)].action = "second_chance"
    /\ LET s == lists[dicts[q]["Q00"]]
       IN  /\ Len(s) >= 2
           /\ s[Len(s)] = <<steps[Len(steps)].cell, 0, 1>>
           /\ s[1][1] /= s[Len(s)][1]

\* the entries of the caller's queue set, a missing name counting as empty
InputEntries ==
    InputQueue("Q00") \o InputQueue("Q01") \o InputQueue("Q10")
        \o InputQueue("Q11") \o InputQueue("HQ")

\* C22: the evictor ends with the no-victim error exactly when the input
\* queue set holds no entry at all (a queue name missing from the mapping
\* counts as empty); the error comes in the first iteration and the step
\* log is still empty.
C22_NoVictimIffNoEntries ==
    /\ [][(LruRunning /\ pc' /= "lru_loop") =>
             (exc' = NoVictimError <=> InputEntries = <<>>)]_vars
    /\ [](exc = NoVictimError =>
             /\ InputEntries = <<>>
             /\ steps = <<>>
             /\ iter = 1
             /\ lru = None)

\* C22 witness: the caller's mapping names no queue at all and the evictor
\* has failed with the no-victim error.
C22_Witness ==
    /\ exc = NoVictimError
    /\ queues /= None
    /\ DOMAIN dicts[queues[1]] = {}
    /\ steps = <<>>

\* C23: in a successful run the step log is k rotate_queues steps, k being
\* the number of empty queues in front of the first non-empty input queue
\* (0..4), then zero or more second_chance steps, then one victim_found step
\* as the last step, and this is the log that is returned; at no time does
\* a rotate_queues step follow a second_chance step in the log.
C23_StepLogShape ==
    /\ \A i \in 1..(Len(steps) - 1) :
          steps[i].action = "second_chance" =>
              steps[i + 1].action /= "rotate_queues"
    /\ lru /= None =>
          LET k == FirstNonEmpty - 1
              n == Len(steps)
          IN  /\ k \in 0..4
              /\ n >= k + 1
              /\ \A i \in 1..n :
                    steps[i].action =
                        (IF i <= k THEN "rotate_queues"
                         ELSE IF i < n THEN "second_chance"
                         ELSE "victim_found")
              /\ lru[1].steps = steps

\* C23 witness: Q00 is empty, Q01 holds (5, 0, 0) alone and the other
\* queues are empty; the log is one rotate_queues step and then the
\* victim_found step for cell 5 with R = 0.
C23_Witness ==
    /\ lru /= None
    /\ InputQueue("Q00") = <<>>
    /\ InputQueue("Q01") = <<<<5, 0, 0>>>>
    /\ InputQueue("Q10") \o InputQueue("Q11") \o InputQueue("HQ") = <<>>
    /\ Len(steps) = 2
    /\ steps[1].action = "rotate_queues"
    /\ steps[2].action = "victim_found"
    /\ steps[2].cell = 5
    /\ steps[2].R = 0

\* ------------------------------------------------------------------------
\* Properties of the orchestrator
\* ------------------------------------------------------------------------

\* the keys of a result of the path without page fault
ResultKeysWithoutFault ==
    {"address", "num_cells", "pte", "disk_model", "page_fault", "real_address"}

\* C24: when the validity bit of the page-table entry is 0 the translation
\* runs the decomposer, the analyzer and the assembler only: the evictor is
\* never entered, no step changes the queue objects, and the returned
\* result has page_fault = FALSE and a real address and none of lru,
\* evicted_page, page_out, page_in, new_pte, whatever queues and locator
\* the caller supplied.
C24_NoFaultPath ==
    /\ [](~EntryFaults =>
             /\ pc \in {"start", "Decomposed", "Analyzed", "Resolved"}
             /\ lru = None /\ q = 0 /\ queues_before = 0
             /\ steps = <<>> /\ iter = 0
             /\ exc = None
             /\ Returned =>
                   /\ DOMAIN result = ResultKeysWithoutFault
                   /\ result["page_fault"] = FALSE
                   /\ result["real_address"] =
                         calculate_real_address(RequestedEntry \div 8,
                                                result["address"].d_bin))
    /\ [][~EntryFaults => UNCHANGED <<queues, dicts, lists>>]_vars

\* C24 witness: the translation of exercise 4b's entry 1033 has returned
\* its result although the caller supplied queues and a locator.
C24_Witness ==
    /\ Returned
    /\ pte_hex = <<1,0,3,3>>
    /\ queues /= None
    /\ InputEntries /= <<>>
    /\ pfte_bytes_45_hex /= None
    /\ result["page_fault"] = FALSE

\* the place of each position of solve_full_exercise in the order of the
\* stages; the evictor's loop and its return lie between FaultDetected and
\* VictimChosen
StageRank(p) ==
    CASE p = "start" -> 0
      [] p = "Decomposed" -> 1
      [] p = "Analyzed" -> 2
      [] p = "FaultDetected" -> 3
      [] p = "lru_loop" -> 4
      [] p = "lru_return" -> 5
      [] p = "VictimChosen" -> 6
      [] p = "EvictedPageIdentified" -> 7
      [] p = "PageOutComputed" -> 8
      [] p = "PageInComputed" -> 9
      [] p = "EntriesRebuilt" -> 10
      [] p = "Resolved" -> 11
      [] p = "Failed" -> 12

\* the positions that may come next, the step after VictimChosen left open
StageSuccessors(p, afterVictim) ==
    CASE p = "start" -> {"Decomposed"}
      [] p = "Decomposed" -> {"Analyzed"}
      [] p = "Analyzed" ->
            IF EntryFaults THEN {"FaultDetected", "Failed"} ELSE {"Resolved"}
      [] p = "FaultDetected" -> {"lru_loop"}
      [] p = "lru_loop" -> {"lru_return", "Failed"}
      [] p = "lru_return" -> {"VictimChosen"}
      [] p = "VictimChosen" -> afterVictim
      [] p = "EvictedPageIdentified" -> {"PageOutComputed", "PageInComputed"}
      [] p = "PageOutComputed" -> {"PageInComputed"}
      [] p = "PageInComputed" -> {"EntriesRebuilt"}
      [] p = "EntriesRebuilt" -> {"Resolved"}
      [] p = "Resolved" -> {}
      [] p = "Failed" -> {}

\* the three failures of a stage
StageFailures == {MissingQueuesError, NoVictimError, LimitError}

\* a change of position follows the order of the stages and moves forward,
\* and nothing follows Resolved or a failure
StageStep(afterVictim) ==
    /\ pc' /= pc =>
          /\ pc' \in StageSuccessors(pc, afterVictim)
          /\ StageRank(pc') > StageRank(pc)
    /\ (pc = "Resolved" \/ pc = "Failed") => pc' = pc

\* a translation has failed exactly when one of the three failures was raised
FailureEndsTranslation ==
    /\ pc = "Failed" <=> exc /= None
    /\ exc /= None => exc \in StageFailures

CalledLocator == PlaceSum(call[1].pfte_bytes_45_hex, 16, 1)

\* identify_evicted_page has returned for the page number of a decomposed
\* address of at most 24 bits
DecomposedPageIdentified ==
    /\ CallReturned("identify_evicted_page")
    /\ "address" \in DOMAIN call[1]
    /\ PlaceSum(call[1].dv_hex, 16, 1) < 16777216

\* C26: identify_evicted_page returns segment = value // 32 and
\* page = value % 32 of the value its text denotes: for every 16-bit value
\* segment * 32 + page = value and 0 <= page <= 31; for the absolute page
\* number of a decomposed 24-bit address it returns the segment and the page
\* of that address.
C26_EvictedPage ==
    /\ (CallReturned("identify_evicted_page") /\ CalledLocator < 65536) =>
          LET e == ret[1].value
          IN  /\ e.num_abs_page = CalledLocator
              /\ e.segment * 32 + e.page = CalledLocator
              /\ e.page \in 0..31
              /\ e.segment >= 0
    /\ DecomposedPageIdentified =>
          /\ ret[1].value.segment = call[1].address.S_dec
          /\ ret[1].value.page = call[1].address.P_dec
          /\ ret[1].value.segment = (PlaceSum(call[1].dv_hex, 16, 1) \div 65536)
          /\ ret[1].value.page = (PlaceSum(call[1].dv_hex, 16, 1) \div 2048) % 32

\* C26 witness: the page of address FFFFFF (segment 255, page 31) has been
\* identified from its absolute page number 1FFF.
C26_Witness ==
    /\ DecomposedPageIdentified
    /\ call[1].dv_hex = <<15,15,15,15,15,15>>
    /\ call[1].pfte_bytes_45_hex = <<1,15,15,15>>
    /\ ret[1].value.segment = 255
    /\ ret[1].value.page = 31

\* ------------------------------------------------------------------------
\* Properties of the disk-model catalog
\* ------------------------------------------------------------------------

\* C27: the catalog of disk models only grows: no step of the session
\* removes a key or changes the value of a key that is present (registering
\* a custom geometry again leaves its entry as it was), the entries 3330
\* (19, 6), 3340 (12, 3) and 3350 (30, 8) keep their values, and every entry
\* has tracks per cylinder > 0 and slots per track > 0.
C27_CatalogAppendOnly ==
    /\ [][\A k \in DOMAIN DISK_MODELS :
             /\ k \in DOMAIN DISK_MODELS'
             /\ DISK_MODELS'[k] = DISK_MODELS[k]]_vars
    /\ [](/\ {"3330", "3340", "3350"} \subseteq DOMAIN DISK_MODELS
          /\ DISK_MODELS["3330"] = [tracks_per_cyl |-> 19, slots_per_track |-> 6]
          /\ DISK_MODELS["3340"] = [tracks_per_cyl |-> 12, slots_per_track |-> 3]
          /\ DISK_MODELS["3350"] = [tracks_per_cyl |-> 30, slots_per_track |-> 8]
          /\ \A k \in DOMAIN DISK_MODELS :
                /\ DISK_MODELS[k].tracks_per_cyl > 0
                /\ DISK_MODELS[k].slots_per_track > 0)

\* C27 witness: two custom geometries have been registered in the session,
\* the catalog holds five entries, and the calculator is using one of the
\* custom geometries for calculate_epa.
C27_Witness ==
    /\ DOMAIN DISK_MODELS =
          {"3330", "3340", "3350", "custom_4x1", "custom_4x2"}
    /\ DISK_MODELS["custom_4x2"] = [tracks_per_cyl |-> 4, slots_per_track |-> 2]
    /\ menu = "calculator_call"
    /\ call /= None
    /\ call[1].fn = "calculate_epa"
    /\ call[1].tracks_per_cyl = 4

\* ------------------------------------------------------------------------
\* Properties of the queue contents
\* ------------------------------------------------------------------------

\* the (cell, C) pair of an entry
Pair(e) == <<e[1], e[3]>>

\* how many entries of the sequence s carry the pair p
Occurrences(s, p) == Cardinality({i \in 1..Len(s) : Pair(s[i]) = p})

\* the pairs carried by the entries of s
Pairs(s) == {Pair(s[i]) : i \in 1..Len(s)}

\* s and t hold the same multiset of (cell, C) pairs
SamePairs(s, t) ==
    /\ Len(s) = Len(t)
    /\ \A p \in Pairs(s) \cup Pairs(t) : Occurrences(s, p) = Occurrences(t, p)

\* C28: every step of the evictor that goes on with the loop (a rotation or
\* a second chance) keeps the multiset of (cell, C) pairs held across the
\* five queues, and a rotation replaces only an empty Q00; when a victim is
\* returned, queues_after holds the input's pairs minus one occurrence of
\* the victim's pair, one entry less than the input; cell numbers that
\* occur more than once are carried through like any other.
C28_EntriesPreserved ==
    /\ [][(LruRunning /\ pc' = "lru_loop") =>
             LET old == Contents(dicts, lists, q)
                 new == Contents(dicts', lists', q)
             IN  /\ SamePairs(AllEntries(new), AllEntries(old))
                 /\ RotationLogged => old["Q00"] = <<>>]_vars
    /\ [](LruRunning => SamePairs(AllEntries(Contents(dicts, lists, q)),
                                  InputEntries))
    /\ [](lru /= None =>
             LET after == AllEntries(Contents(dicts, lists, lru[1].queues_after))
                 victim == <<lru[1].victim_cell, lru[1].victim_C>>
             IN  /\ Len(after) = Len(InputEntries) - 1
                 /\ SamePairs(<<<<victim[1], 0, victim[2]>>>> \o after,
                              InputEntries))

\* C28 witness: the queues of exercise extra1, where cell 32 is in Q10 and in
\* HQ, have gone through three second chances and a victim was returned;
\* queues_after still holds cell 32 twice, with C = 1 and with C = 0.
C28_Witness ==
    /\ lru /= None
    /\ Contents(dicts, lists, queues[1]) = QueuesExtra1
    /\ CountSteps("second_chance") = 3
    /\ LET after == AllEntries(Contents(dicts, lists, lru[1].queues_after))
       IN  /\ Occurrences(after, <<32, 1>>) = 1
           /\ Occurrences(after, <<32, 0>>) = 1
           /\ Len(after) = 9

\* the entries of s with R set to 0
Cleared(s) == [i \in 1..Len(s) |-> <<s[i][1], 0, s[i][3]>>]

\* the queue state a successful run leaves, computed from the input alone:
\* k is the place of the first non-empty queue and pos the place of the
\* victim in it
ExpectedQueuesAfter ==
    LET k == FirstNonEmpty
        s == InputQueue(QUEUE_ORDER[k])
        pos == ExpectedPosition(s)
        q00 == IF Unreferenced(s) = {}
               THEN Cleared(Tail(s))
               ELSE SubSeq(s, pos + 1, Len(s)) \o Cleared(SubSeq(s, 1, pos - 1))
    IN  [n \in QueueNames |->
            LET i == IndexIn(QUEUE_ORDER, n)
            IN  IF i = 1 THEN q00
                ELSE IF i + k - 1 <= Len(QUEUE_ORDER)
                     THEN InputQueue(QUEUE_ORDER[i + k - 1])
                     ELSE <<>>]

\* C29: on success queues_after is determined by the input: with the first
\* non-empty queue being prefix, victim, suffix (every prefix entry having
\* R /= 0), Q00 is the suffix followed by the prefix with R set to 0, or the
\* rest of the queue with R set to 0 when no entry had R = 0 and the head
\* was evicted after a full pass; the queues behind the first non-empty one
\* have moved down by as many tiers as there were empty queues in front,
\* with their contents unchanged, and the tiers above them are empty.
C29_QueuesAfterDetermined ==
    lru /= None =>
        /\ Contents(dicts, lists, lru[1].queues_after) = ExpectedQueuesAfter
        /\ LET s == InputQueue(QUEUE_ORDER[FirstNonEmpty])
           IN  \A i \in 1..(ExpectedPosition(s) - 1) : s[i][2] /= 0

\* C29 witness: the victim stood between a referenced head and one more
\* entry of Q00, and Q01 held an entry; afterwards Q00 is the entry that
\* was behind the victim followed by the old head with R = 0, and Q01 is
\* as it was.
C29_Witness ==
    /\ lru /= None
    /\ InputQueue("Q00") = <<<<17,1,1>>, <<8195,0,0>>, <<14,1,0>>>>
    /\ lists[dicts[lru[1].queues_after]["Q00"]] = <<<<14,1,0>>, <<17,0,1>>>>
    /\ lists[dicts[lru[1].queues_after]["Q01"]] = <<<<31,0,1>>>>
    /\ lru[1].victim_cell = 8195

\* ------------------------------------------------------------------------
\* Properties of the iteration cap
\* ------------------------------------------------------------------------

\* the first non-empty queue of the input
FirstQueue == InputQueue(QUEUE_ORDER[FirstNonEmpty])

\* C30: a run on a queue set that holds an entry returns its victim within
\* k + n + 1 loop iterations, k being the number of empty queues in front of
\* the first non-empty queue and n the length of that queue, and it never
\* gives more second chances than that queue has entries; the limit error
\* is raised only when the first non-empty queue has more than 995 entries,
\* and not for a queue of at most 995 entries that all have R = 1.
C30_CapOutOfReach ==
    /\ lru /= None =>
          /\ iter <= (FirstNonEmpty - 1) + Len(FirstQueue) + 1
          /\ iter = Len(steps)
    /\ (LruRunning /\ InputEntries /= <<>>) =>
          /\ CountSteps("second_chance") <= Len(FirstQueue)
          /\ iter <= (FirstNonEmpty - 1) + Len(FirstQueue)
    /\ exc = LimitError =>
          /\ InputEntries /= <<>>
          /\ Len(FirstQueue) > 995

\* C30 witness: HQ held 995 entries, all with R = 1, and the other queues
\* were empty; the run returned its victim in iteration 1000 = 4 + 995 + 1.
C30_Witness ==
    /\ lru /= None
    /\ FirstNonEmpty = 5
    /\ Len(FirstQueue) = 995
    /\ Unreferenced(FirstQueue) = {}
    /\ iter = 1000
    /\ CountSteps("second_chance") = 995

====
